---------------------------- MODULE Spec2Model ----------------------------
(***************************************************************************)
(* A model of the graang dashboard conversion engine:                      *)
(*   - GridLayoutCalculator            (src/src/graang/utils.py)           *)
(*   - convert_datadog_query_to_prometheus, build_grafana_target,          *)
(*     convert_requests_to_targets     (src/src/graang/utils.py)           *)
(*   - DatadogDashboard.process_widgets (src/src/graang/datadog_dashboard) *)
(*   - DatadogToGrafanaConverter       (src/datadog_to_grafana.py)         *)
(*                                                                         *)
(* Python strings that the code takes apart or puts together (queries,     *)
(* reference ids) are sequences of one-character strings.  An optional     *)
(* dictionary entry is a sequence of length at most one: <<>> when the key *)
(* is absent, <<v>> when it is present with value v.                       *)
(***************************************************************************)
EXTENDS Integers, Sequences, FiniteSets, TLC

VARIABLES
    grid_layout,   \* GridLayoutCalculator: [x, y, current_row_height]
    emitted,       \* packer: the positions returned so far, in call order
    last_call,     \* packer: <<>> or <<[widget, at, pos]>> of the last call
    datadog,       \* converter: the DatadogDashboard it was constructed with
    grafana,       \* converter: self.grafana, [uid, title, panels, templating]
    panel_id,      \* converter: self.panel_id
    grid_pos,      \* converter: self.grid_pos, [x, y, current_row_height]
    ops,           \* converter: the operations invoked so far
    returned,      \* converter: what the last operation returned
    query,         \* translator: the input string
    prom,          \* translator: <<>> before the call, <<output>> after it
    requests,      \* normalizer: the requests field
    targets,       \* normalizer: <<>> before the call, <<list>> after it
    second,        \* a second converter on the same dashboard: <<>> or
                   \* <<[grafana, panel_id, grid_pos, ops]>>
    file,          \* loader: <<>> or <<the file at the path given>>
    loaded         \* loader: <<>> before DatadogDashboard(path), then
                   \* <<[error, dashboard]>>

vars == <<grid_layout, emitted, last_call, datadog, grafana, panel_id, grid_pos, ops,
          returned, query, prom, requests, targets, second, file, loaded>>

-----------------------------------------------------------------------------
(* Bounds of the model *)

MaxCalls == 3

MaxPieces == 3

\* Requests in one requests field, over all its keys.
MaxRequests == 2

\* Widgets of a document, groups and their descendants counted.
MaxWidgets == 3

\* Widgets of a document without groups.
MaxFlat == 1

\* Template variables of a document.
MaxVariables == 2

\* Operations invoked on one converter.
MaxOps == 2

-----------------------------------------------------------------------------
(* Optional values and small helpers *)

Absent == <<>>

Some(v) == <<v>>

Has(o) == Len(o) > 0

Get(o, default) == IF Len(o) > 0 THEN o[1] ELSE default

Max(a, b) == IF a > b THEN a ELSE b

Min(a, b) == IF a < b THEN a ELSE b

SeqsUpTo(S, n) == UNION {[1..k -> S] : k \in 0..n}

-----------------------------------------------------------------------------
(* Source widgets *)

\* A widget dictionary.  `definition' is <<>> or <<[type, title, widgets,
\* requests, content]>>; definition.type is the value of
\* definition.get('type', 'unknown').
NoLayout == Absent

Layout(w, h) == Some([width |-> w, height |-> h])

Definition(type) ==
    [type |-> type, title |-> Absent, widgets |-> Absent,
     requests |-> Absent, content |-> Absent]

Widget(id, definition) ==
    [id |-> id, title |-> Absent, layout |-> NoLayout, definition |-> definition]

Leaf(id, type) == Widget(id, Some(Definition(type)))

-----------------------------------------------------------------------------
(* GridLayoutCalculator, src/src/graang/utils.py *)

max_x == 24

GridLayoutInit == [x |-> 0, y |-> 0, current_row_height |-> 0]

\* Mutant of RoundGrid: the quotient is truncated, not rounded.
RoundGridTruncates(percent) == (24 * percent) \div 100

\* round((percent / 100) * 24).  (percent/100)*24 = 6*percent/25 is never
\* within 1/50 of a half-integer, so Python's round-half-even and the float
\* error play no part: the result is floor(6*percent/25 + 1/2).
RoundGrid(percent) == (12 * percent + 25) \div 50

\* 'layout' in widget and 'width' in widget['layout'] and 'height' in ...
HasLayoutSize(widget) ==
    /\ Has(widget.layout)
    /\ Has(widget.layout[1].width)
    /\ Has(widget.layout[1].height)

\* Mutant of LayoutWidth: the upper clamp min(24, ...) is left out.
LayoutWidthNoUpperClamp(widget) ==
    Max(1, RoundGrid(Get(widget.layout[1].width, 50)))

LayoutWidth(widget) ==
    Max(1, Min(24, RoundGrid(Get(widget.layout[1].width, 50))))

LayoutHeight(widget) ==
    Max(4, Min(36, RoundGrid(Get(widget.layout[1].height, 25))))

\* widget.get('definition', {}).get('type', 'unknown')
WidgetType(widget) ==
    IF Has(widget.definition) THEN widget.definition[1].type ELSE "unknown"

ImportantTypes ==
    {"timeseries", "query_value", "toplist", "heatmap", "hostmap", "event_stream"}

\* Mutant of PanelWidth: the full-width rule for important panels is left
\* out, every panel without a layout size gets the default width.
PanelWidthAlwaysHalf(widget, x) ==
    IF HasLayoutSize(widget) THEN LayoutWidth(widget) ELSE 12

\* The width chosen by lines 120-143, with the cursor at column x.
PanelWidth(widget, x) ==
    IF HasLayoutSize(widget) THEN LayoutWidth(widget)
    ELSE IF WidgetType(widget) \in ImportantTypes
         THEN (IF x = 0 THEN 24 ELSE 12)
         ELSE 12

\* The height chosen by lines 121-131.
PanelHeight(widget) ==
    IF HasLayoutSize(widget) THEN LayoutHeight(widget) ELSE 8

\* Mutant of WrapRow: the height of the row is not reset on a new row.
WrapRowKeepsRowHeight(g, width) ==
    IF g.x + width > max_x
    THEN [x |-> 0, y |-> g.y + g.current_row_height,
          current_row_height |-> g.current_row_height]
    ELSE g

\* The cursor after the new-row check of lines 146-149.
WrapRow(g, width) ==
    IF g.x + width > max_x
    THEN [x |-> 0, y |-> g.y + g.current_row_height, current_row_height |-> 0]
    ELSE g

\* Mutant of GetNextGridPosition: the row height is the height of the last
\* panel of the row, not the maximum.
GetNextGridPositionLastHeight(g, widget) ==
    LET width  == PanelWidth(widget, g.x)
        height == PanelHeight(widget)
        c      == WrapRow(g, width)
    IN  [pos  |-> [x |-> c.x, y |-> c.y, w |-> width, h |-> height],
         next |-> [x |-> c.x + width, y |-> c.y,
                   current_row_height |-> height]]

\* get_next_grid_position: the returned grid_pos and the calculator after it.
GetNextGridPosition(g, widget) ==
    LET width  == PanelWidth(widget, g.x)
        height == PanelHeight(widget)
        c      == WrapRow(g, width)
    IN  [pos  |-> [x |-> c.x, y |-> c.y, w |-> width, h |-> height],
         next |-> [x |-> c.x + width, y |-> c.y,
                   current_row_height |-> Max(c.current_row_height, height)]]

-----------------------------------------------------------------------------
(* convert_datadog_query_to_prometheus, src/src/graang/utils.py            *)
(* (DatadogToGrafanaConverter._convert_datadog_query_to_prometheus in      *)
(* src/datadog_to_grafana.py is the same text)                             *)

\* s[from..] as a sequence.
Drop(s, n) == SubSeq(s, n + 1, Len(s))

StartsWith(s, pat) ==
    /\ Len(s) >= Len(pat)
    /\ SubSeq(s, 1, Len(pat)) = pat

\* re.sub(pat, rep, s) for a literal pattern: every non-overlapping
\* occurrence, leftmost first.
RECURSIVE ReSubLiteral(_, _, _)
ReSubLiteral(pat, rep, s) ==
    IF Len(s) < Len(pat) THEN s
    ELSE IF StartsWith(s, pat)
         THEN rep \o ReSubLiteral(pat, rep, Drop(s, Len(pat)))
         ELSE <<s[1]>> \o ReSubLiteral(pat, rep, Drop(s, 1))

\* The index of the first element of s equal to ch, 0 when there is none.
RECURSIVE IndexOf(_, _)
IndexOf(s, ch) ==
    IF s = <<>> THEN 0
    ELSE IF s[1] = ch THEN 1
    ELSE LET r == IndexOf(Tail(s), ch) IN IF r = 0 THEN 0 ELSE r + 1

\* re.sub(r'\{([^}]+)\}', r'{{\1}}', s): at a '{', the match runs to the
\* first '}' after it and needs one character or more in between.
RECURSIVE ReSubTagFilters(_)
ReSubTagFilters(s) ==
    IF s = <<>> THEN s
    ELSE LET close == IndexOf(Tail(s), "}")
         IN  IF s[1] = "{" /\ close >= 2
             THEN <<"{", "{">> \o SubSeq(s, 2, close) \o <<"}", "}">>
                    \o ReSubTagFilters(Drop(s, close + 1))
             ELSE <<s[1]>> \o ReSubTagFilters(Tail(s))

\* str.count(ch)
RECURSIVE Count(_, _)
Count(s, ch) ==
    IF s = <<>> THEN 0
    ELSE (IF s[1] = ch THEN 1 ELSE 0) + Count(Tail(s), ch)

Repeat(ch, n) == [i \in 1..n |-> ch]

\* \w of the characters the model's strings are made of.
WordChars ==
    {"a", "b", "c", "d", "e", "f", "g", "h", "i", "j", "k", "l", "m", "n",
     "o", "p", "q", "r", "s", "t", "u", "v", "w", "x", "y", "z", "_",
     "0", "1", "2", "3", "4", "5", "6", "7", "8", "9", "A"}

\* re.search(r'\[\w+\]', s)
HasTimeRange(s) ==
    \E i \in 1..Len(s), j \in 1..Len(s) :
        /\ j >= i + 2
        /\ s[i] = "["
        /\ s[j] = "]"
        /\ \A k \in (i + 1)..(j - 1) : s[k] \in WordChars

AvgToken == <<"a", "v", "g", ":">>
SumToken == <<"s", "u", "m", ":">>
MinToken == <<"m", "i", "n", ":">>
MaxToken == <<"m", "a", "x", ":">>

AvgFunction == <<"a", "v", "g", "_", "o", "v", "e", "r", "_", "t", "i", "m", "e", "(">>
SumFunction == <<"s", "u", "m", "(">>
MinFunction == <<"m", "i", "n", "_", "o", "v", "e", "r", "_", "t", "i", "m", "e", "(">>
MaxFunction == <<"m", "a", "x", "_", "o", "v", "e", "r", "_", "t", "i", "m", "e", "(">>

DefaultTimeRange == <<"[", "5", "m", "]">>

\* Mutant of ReplaceFunctions: 'sum:' is given the _over_time name too.
ReplaceFunctionsUniformNames(s) ==
    ReSubLiteral(MaxToken, MaxFunction,
      ReSubLiteral(MinToken, MinFunction,
        ReSubLiteral(SumToken,
                     <<"s", "u", "m", "_", "o", "v", "e", "r", "_", "t", "i", "m", "e", "(">>,
          ReSubLiteral(AvgToken, AvgFunction, s))))

\* Lines 15-18: the four aggregator replacements, in the code's order.
ReplaceFunctions(s) ==
    ReSubLiteral(MaxToken, MaxFunction,
      ReSubLiteral(MinToken, MinFunction,
        ReSubLiteral(SumToken, SumFunction,
          ReSubLiteral(AvgToken, AvgFunction, s))))

\* Mutant of AddClosingParens: one closing parenthesis at most is added.
AddOneClosingParen(s) ==
    IF Count(s, "(") > Count(s, ")") THEN s \o <<")">> ELSE s

\* Lines 24-27.
AddClosingParens(s) ==
    LET open_parens  == Count(s, "(")
        close_parens == Count(s, ")")
    IN  IF open_parens > close_parens
        THEN s \o Repeat(")", open_parens - close_parens)
        ELSE s

\* Mutant of AddTimeRange: the default range is appended to every query.
AddTimeRangeAlways(s) == s \o DefaultTimeRange

\* Lines 30-31.
AddTimeRange(s) == IF ~HasTimeRange(s) THEN s \o DefaultTimeRange ELSE s

ConvertDatadogQueryToPrometheus(s) ==
    AddTimeRange(AddClosingParens(ReSubTagFilters(ReplaceFunctions(s))))

-----------------------------------------------------------------------------
(* build_grafana_target and convert_requests_to_targets,                   *)
(* src/src/graang/utils.py                                                 *)

\* A request is None, or a dictionary with the optional keys q, query,
\* queries (a list of [query |-> optional string]) and display_name.
NoneRequest == [none |-> TRUE, q |-> Absent, query |-> Absent,
                queries |-> Absent, display_name |-> Absent]

EmptyRequest == [NoneRequest EXCEPT !.none = FALSE]

\* A requests field: a list of requests, a dictionary (its entries in
\* iteration order, each value a list of requests or one request), or
\* something else.
RequestList(items) == [kind |-> "list", items |-> items]

RequestDict(entries) == [kind |-> "dict", entries |-> entries]

\* A requests argument that is neither a list nor a dictionary: None.
NoRequests == [kind |-> "none"]

ListValue(items) == [kind |-> "list", items |-> items]

DictValue(request) == [kind |-> "dict", request |-> request]

DigitChars == <<"0", "1", "2", "3", "4", "5", "6", "7", "8", "9">>

\* str(n) of an f-string, n >= 0.
RECURSIVE Str(_)
Str(n) ==
    IF n < 10 THEN <<DigitChars[n + 1]>>
    ELSE Str(n \div 10) \o <<DigitChars[(n % 10) + 1]>>

\* `not request`: None or the empty dictionary.
Falsy(request) ==
    \/ request.none
    \/ ~Has(request.q) /\ ~Has(request.query) /\ ~Has(request.queries)
         /\ ~Has(request.display_name)

\* Lines 42-50: the query text taken from a request.
ExtractQuery(request) ==
    IF Has(request.q) THEN request.q[1]
    ELSE IF Has(request.query) THEN request.query[1]
    ELSE IF Has(request.queries) /\ Len(request.queries[1]) > 0
         THEN LET query_obj == request.queries[1][1]
              IN  IF Has(query_obj.query) THEN query_obj.query[1] ELSE <<>>
    ELSE <<>>

\* build_grafana_target: <<>> for None, <<target>> otherwise.
BuildGrafanaTarget(request, datasource, ref_id) ==
    IF Falsy(request) THEN Absent
    ELSE IF ExtractQuery(request) = <<>> THEN Absent
    ELSE Some([datasource   |-> [type |-> datasource, uid |-> datasource],
               expr         |-> ConvertDatadogQueryToPrometheus(ExtractQuery(request)),
               refId        |-> ref_id,
               instant      |-> FALSE,
               legendFormat |-> Get(request.display_name, "")])

\* Mutant of EnumerateTargets: the loop ends at the first request that
\* gives no target.
RECURSIVE EnumerateTargetsUntilInvalid(_, _, _, _)
EnumerateTargetsUntilInvalid(items, from, prefix, datasource) ==
    IF from > Len(items) THEN <<>>
    ELSE IF BuildGrafanaTarget(items[from], datasource,
                               prefix \o Str(from - 1)) = Absent
    THEN <<>>
    ELSE BuildGrafanaTarget(items[from], datasource, prefix \o Str(from - 1))
           \o EnumerateTargetsUntilInvalid(items, from + 1, prefix, datasource)

\* Mutant of EnumerateTargets: the index of a reference id counts the
\* targets given so far, so the index of a skipped request is reused.
RECURSIVE EnumerateTargetsDenseIndex(_, _, _, _)
EnumerateTargetsDenseIndex(items, from, prefix, datasource) ==
    IF from > Len(items) THEN <<>>
    ELSE LET given == Len(SelectSeq(SubSeq(items, 1, from - 1),
                                    LAMBDA r : BuildGrafanaTarget(r, datasource,
                                                                  prefix) # Absent))
         IN  BuildGrafanaTarget(items[from], datasource, prefix \o Str(given))
               \o EnumerateTargetsDenseIndex(items, from + 1, prefix, datasource)

\* for i, request in enumerate(items): the targets of items[from..], with
\* reference id prefix + str(i).
RECURSIVE EnumerateTargets(_, _, _, _)
EnumerateTargets(items, from, prefix, datasource) ==
    IF from > Len(items) THEN <<>>
    ELSE BuildGrafanaTarget(items[from], datasource, prefix \o Str(from - 1))
           \o EnumerateTargets(items, from + 1, prefix, datasource)

\* Lines 89-97: the targets of one dictionary entry.
EntryTargets(entry, datasource) ==
    IF entry.value.kind = "list"
    THEN EnumerateTargets(entry.value.items, 1, entry.key \o <<"_">>, datasource)
    ELSE IF entry.value.kind = "dict"
    THEN BuildGrafanaTarget(entry.value.request, datasource, entry.key)
    ELSE <<>>

RECURSIVE DictTargets(_, _)
DictTargets(entries, datasource) ==
    IF entries = <<>> THEN <<>>
    ELSE EntryTargets(entries[1], datasource)
           \o DictTargets(Tail(entries), datasource)

\* Mutant of ConvertRequestsToTargets: the dictionary loop returns after
\* its first key.
ConvertRequestsFirstKeyOnly(reqs, datasource) ==
    IF reqs.kind = "dict"
    THEN (IF reqs.entries = <<>> THEN <<>>
          ELSE EntryTargets(reqs.entries[1], datasource))
    ELSE IF reqs.kind = "list"
    THEN EnumerateTargets(reqs.items, 1, <<"A">>, datasource)
    ELSE <<>>

\* convert_requests_to_targets
ConvertRequestsToTargets(reqs, datasource) ==
    IF reqs.kind = "dict" THEN DictTargets(reqs.entries, datasource)
    ELSE IF reqs.kind = "list"
    THEN EnumerateTargets(reqs.items, 1, <<"A">>, datasource)
    ELSE <<>>

-----------------------------------------------------------------------------
(* DatadogDashboard.process_widgets, src/src/graang/datadog_dashboard.py   *)

IsGroupWithWidgets(widget) ==
    /\ Has(widget.definition)
    /\ widget.definition[1].type = "group"
    /\ Has(widget.definition[1].widgets)

\* self.nested_widgets after process_widgets(widgets, is_nested).
RECURSIVE NestedWidgets(_, _)
NestedWidgets(widgets, is_nested) ==
    IF widgets = <<>> THEN <<>>
    ELSE LET widget == widgets[1]
         IN  (IF ~Has(widget.definition) THEN <<>>
              ELSE IF IsGroupWithWidgets(widget)
              THEN NestedWidgets(widget.definition[1].widgets[1], TRUE)
              ELSE IF is_nested THEN <<widget>> ELSE <<>>)
             \o NestedWidgets(Tail(widgets), is_nested)

\* self.group_widgets after process_widgets(widgets).
RECURSIVE GroupWidgets(_)
GroupWidgets(widgets) ==
    IF widgets = <<>> THEN <<>>
    ELSE LET widget == widgets[1]
         IN  (IF IsGroupWithWidgets(widget)
              THEN <<widget>> \o GroupWidgets(widget.definition[1].widgets[1])
              ELSE <<>>)
             \o GroupWidgets(Tail(widgets))

\* Mutant of CountedTypes: a widget without a definition is counted as
\* 'unknown'.
RECURSIVE CountedTypesUnknownForNoDefinition(_)
CountedTypesUnknownForNoDefinition(widgets) ==
    IF widgets = <<>> THEN <<>>
    ELSE LET widget == widgets[1]
         IN  (IF ~Has(widget.definition) THEN <<"unknown">>
              ELSE <<widget.definition[1].type>>
                     \o (IF IsGroupWithWidgets(widget)
                         THEN CountedTypesUnknownForNoDefinition(
                                  widget.definition[1].widgets[1])
                         ELSE <<>>))
             \o CountedTypesUnknownForNoDefinition(Tail(widgets))

\* The types counted by line 93, one per counted widget, in traversal order.
RECURSIVE CountedTypes(_)
CountedTypes(widgets) ==
    IF widgets = <<>> THEN <<>>
    ELSE LET widget == widgets[1]
         IN  (IF ~Has(widget.definition) THEN <<>>
              ELSE <<widget.definition[1].type>>
                     \o (IF IsGroupWithWidgets(widget)
                         THEN CountedTypes(widget.definition[1].widgets[1])
                         ELSE <<>>))
             \o CountedTypes(Tail(widgets))

\* self.widget_types: a defaultdict(int), its keys the types counted.
WidgetTypeCounts(widgets) ==
    LET types == CountedTypes(widgets)
    IN  [t \in {types[i] : i \in 1..Len(types)} |->
            Cardinality({i \in 1..Len(types) : types[i] = t})]

\* The dashboard object after __init__ on a document with these widgets and
\* template variables (parse_dashboard, lines 60-77).
Dashboard(widgets, template_variables) ==
    [title              |-> "Test Dashboard",
     widgets            |-> widgets,
     nested_widgets     |-> NestedWidgets(widgets, FALSE),
     group_widgets      |-> GroupWidgets(widgets),
     widget_types       |-> WidgetTypeCounts(widgets),
     template_variables |-> template_variables]

-----------------------------------------------------------------------------
(* DatadogToGrafanaConverter, src/datadog_to_grafana.py                    *)

\* __init__, lines 16-57: self.grafana (the fields the claims read),
\* self.panel_id, self.grid_pos.  uid is str(uuid.uuid4())[:8].
GrafanaInit(dd, uid) ==
    [uid |-> uid, title |-> dd.title, panels |-> <<>>, templating |-> <<>>]

\* Mutant of GrafanaVariable: the values of the variable are not copied
\* to the options.
GrafanaVariableNoOptions(var) ==
    [name       |-> Get(var.name, ""),
     type       |-> "custom",
     datasource |-> [type |-> "prometheus", uid |-> "prometheus"],
     current    |-> IF Has(var.default)
                    THEN Some([value |-> var.default[1], text |-> var.default[1]])
                    ELSE Absent,
     options    |-> <<>>,
     query      |-> IF Has(var.prefix) THEN var.prefix[1] ELSE "",
     skipUrlSync |-> FALSE,
     hide       |-> 0]

\* _convert_template_variables, lines 98-124, for one variable.
GrafanaVariable(var) ==
    [name       |-> Get(var.name, ""),
     type       |-> "custom",
     datasource |-> [type |-> "prometheus", uid |-> "prometheus"],
     current    |-> IF Has(var.default)
                    THEN Some([value |-> var.default[1], text |-> var.default[1]])
                    ELSE Absent,
     options    |-> IF Has(var.values)
                    THEN [i \in 1..Len(var.values[1]) |->
                             [text |-> var.values[1][i], value |-> var.values[1][i]]]
                    ELSE <<>>,
     query      |-> IF Has(var.prefix) THEN var.prefix[1] ELSE "",
     skipUrlSync |-> FALSE,
     hide       |-> 0]

\* _convert_template_variables: the templating list after the call.
ConvertTemplateVariables(list, template_variables) ==
    list \o [i \in 1..Len(template_variables) |->
                GrafanaVariable(template_variables[i])]

\* Mutant of FlattenWidgets: the nested widgets come first.
FlattenWidgetsNestedFirst(dd) ==
    dd.nested_widgets
      \o SelectSeq(dd.widgets,
                   LAMBDA widget : /\ Has(widget.definition)
                                   /\ widget.definition[1].type # "group")

\* _flatten_widgets, lines 126-138.
FlattenWidgets(dd) ==
    SelectSeq(dd.widgets,
              LAMBDA widget : /\ Has(widget.definition)
                              /\ widget.definition[1].type # "group")
      \o dd.nested_widgets

\* _get_next_grid_position, lines 189-223: the converter's own packer, with
\* no full-width rule.
ConverterNextGridPosition(g, widget) ==
    LET width  == IF HasLayoutSize(widget) THEN LayoutWidth(widget) ELSE 12
        height == IF HasLayoutSize(widget) THEN LayoutHeight(widget) ELSE 8
        c      == WrapRow(g, width)
    IN  [pos  |-> [x |-> c.x, y |-> c.y, w |-> width, h |-> height],
         next |-> [x |-> c.x + width, y |-> c.y,
                   current_row_height |-> Max(c.current_row_height, height)]]

\* _build_target, lines 373-401.
BuildTarget(request, ref_id) ==
    IF Falsy(request) THEN Absent
    ELSE IF ExtractQuery(request) = <<>> THEN Absent
    ELSE Some([expr         |-> ConvertDatadogQueryToPrometheus(ExtractQuery(request)),
               refId        |-> ref_id,
               instant      |-> FALSE,
               legendFormat |-> Get(request.display_name, "")])

RECURSIVE EnumerateBuildTarget(_, _, _)
EnumerateBuildTarget(items, from, prefix) ==
    IF from > Len(items) THEN <<>>
    ELSE BuildTarget(items[from], prefix \o Str(from - 1))
           \o EnumerateBuildTarget(items, from + 1, prefix)

RECURSIVE DictBuildTargets(_)
DictBuildTargets(entries) ==
    IF entries = <<>> THEN <<>>
    ELSE (IF entries[1].value.kind = "list"
          THEN EnumerateBuildTarget(entries[1].value.items, 1,
                                    entries[1].key \o <<"_">>)
          ELSE IF entries[1].value.kind = "dict"
          THEN BuildTarget(entries[1].value.request, entries[1].key)
          ELSE <<>>)
         \o DictBuildTargets(Tail(entries))

\* _convert_requests_to_targets(definition.get('requests', [])),
\* lines 340-371.
DefinitionTargets(definition) ==
    LET reqs == Get(definition.requests, RequestList(<<>>))
    IN  IF reqs.kind = "dict" THEN DictBuildTargets(reqs.entries)
        ELSE IF reqs.kind = "list"
        THEN EnumerateBuildTarget(reqs.items, 1, <<"A">>)
        ELSE <<>>

Prometheus == [type |-> "prometheus", uid |-> "prometheus"]

\* Lines 157-161: the base panel.
BasePanel(id, widget, pos) ==
    [id |-> id, title |-> Get(widget.title, "Untitled Panel"), gridPos |-> pos]

\* base with the key k set to v, as panel.update({k: v}) does.
With(base, k, v) ==
    [f \in DOMAIN base \cup {k} |-> IF f = k THEN v ELSE base[f]]

\* Mutant of WithTargets: the 'targets' key is not set.
WithTargetsOmitted(base, type, definition) ==
    With(With(base, "type", type), "datasource", Prometheus)

WithTargets(base, type, definition) ==
    With(With(With(base, "type", type), "datasource", Prometheus),
         "targets", DefinitionTargets(definition))

\* Mutant of WithText: the content of the definition is not copied.
WithTextNoContent(base, content) ==
    With(With(With(base, "type", "text"), "content", <<"">>), "mode", "markdown")

WithText(base, content) ==
    With(With(With(base, "type", "text"), "content", content), "mode", "markdown")

\* Mutant of TypedPanel: a widget of an unsupported type is given the type
\* of the default branch of the chain before it, a note without content.
TypedPanelNoFallbackText(base, definition) ==
    LET widget_type == definition.type
    IN  IF widget_type = "timeseries" THEN WithTargets(base, "timeseries", definition)
        ELSE IF widget_type = "query_value" THEN WithTargets(base, "stat", definition)
        ELSE IF widget_type = "toplist" THEN WithTargets(base, "bargauge", definition)
        ELSE IF widget_type = "note" THEN WithText(base, <<Get(definition.content, "")>>)
        ELSE IF widget_type = "heatmap" THEN WithTargets(base, "heatmap", definition)
        ELSE IF widget_type = "hostmap" THEN WithTargets(base, "table", definition)
        ELSE IF widget_type = "event_stream"
        THEN With(With(With(base, "type", "logs"),
                       "datasource", [type |-> "loki", uid |-> "loki"]),
                  "targets", <<[expr |-> <<"{", "}">>, refId |-> <<"A">>]>>)
        ELSE WithText(base, <<Get(definition.content, "")>>)

\* Mutant of TypedPanel: a toplist is converted by the rule of query_value.
TypedPanelToplistAsStat(base, definition) ==
    LET widget_type == definition.type
    IN  IF widget_type = "timeseries" THEN WithTargets(base, "timeseries", definition)
        ELSE IF widget_type \in {"query_value", "toplist"}
        THEN WithTargets(base, "stat", definition)
        ELSE IF widget_type = "note" THEN WithText(base, <<Get(definition.content, "")>>)
        ELSE IF widget_type = "heatmap" THEN WithTargets(base, "heatmap", definition)
        ELSE IF widget_type = "hostmap" THEN WithTargets(base, "table", definition)
        ELSE IF widget_type = "event_stream"
        THEN With(With(With(base, "type", "logs"),
                       "datasource", [type |-> "loki", uid |-> "loki"]),
                  "targets", <<[expr |-> <<"{", "}">>, refId |-> <<"A">>]>>)
        ELSE WithText(base, <<"Unsupported Datadog widget type: ", widget_type>>)

\* Lines 164-185 with _convert_timeseries ... _convert_event_stream
\* (lines 225-338); the rendering options are left out.
TypedPanel(base, definition) ==
    LET widget_type == definition.type
    IN  IF widget_type = "timeseries" THEN WithTargets(base, "timeseries", definition)
        ELSE IF widget_type = "query_value" THEN WithTargets(base, "stat", definition)
        ELSE IF widget_type = "toplist" THEN WithTargets(base, "bargauge", definition)
        ELSE IF widget_type = "note" THEN WithText(base, <<Get(definition.content, "")>>)
        ELSE IF widget_type = "heatmap" THEN WithTargets(base, "heatmap", definition)
        ELSE IF widget_type = "hostmap" THEN WithTargets(base, "table", definition)
        ELSE IF widget_type = "event_stream"
        THEN With(With(With(base, "type", "logs"),
                       "datasource", [type |-> "loki", uid |-> "loki"]),
                  "targets", <<[expr |-> <<"{", "}">>, refId |-> <<"A">>]>>)
        ELSE WithText(base, <<"Unsupported Datadog widget type: ", widget_type>>)

\* The converter's own state: what _convert_widget_to_panel reads and writes.
ConverterState(id, g) == [panel_id |-> id, grid_pos |-> g]

\* Mutant of ConvertWidgetToPanel: self.panel_id is not advanced.
ConvertWidgetToPanelSameId(st, widget) ==
    IF ~Has(widget.definition)
    THEN [panel |-> Absent, st |-> st]
    ELSE LET r == ConverterNextGridPosition(st.grid_pos, widget)
         IN  [panel |-> Some(TypedPanel(BasePanel(st.panel_id, widget, r.pos),
                                        widget.definition[1])),
              st    |-> ConverterState(st.panel_id, r.next)]

\* Mutant of ConvertWidgetToPanel: a widget without a definition consumes a
\* panel id.
ConvertWidgetToPanelCountsSkipped(st, widget) ==
    IF ~Has(widget.definition)
    THEN [panel |-> Absent, st |-> ConverterState(st.panel_id + 1, st.grid_pos)]
    ELSE LET r == ConverterNextGridPosition(st.grid_pos, widget)
         IN  [panel |-> Some(TypedPanel(BasePanel(st.panel_id, widget, r.pos),
                                        widget.definition[1])),
              st    |-> ConverterState(st.panel_id + 1, r.next)]

\* _convert_widget_to_panel, lines 140-187: the returned panel (<<>> for
\* None) and the converter's state after the call.
ConvertWidgetToPanel(st, widget) ==
    IF ~Has(widget.definition)
    THEN [panel |-> Absent, st |-> st]
    ELSE LET r == ConverterNextGridPosition(st.grid_pos, widget)
         IN  [panel |-> Some(TypedPanel(BasePanel(st.panel_id, widget, r.pos),
                                        widget.definition[1])),
              st    |-> ConverterState(st.panel_id + 1, r.next)]

\* The loop of convert, lines 72-75, over all_widgets[from..].
RECURSIVE ConvertWidgets(_, _, _, _)
ConvertWidgets(all_widgets, from, st, panels) ==
    IF from > Len(all_widgets) THEN [st |-> st, panels |-> panels]
    ELSE LET r == ConvertWidgetToPanel(st, all_widgets[from])
         IN  ConvertWidgets(all_widgets, from + 1, r.st, panels \o r.panel)

\* convert(), lines 59-77, on a converter of the dashboard dd whose document
\* is g and whose counters are st: the document and the counters after it.
ConvertOn(dd, g, st) ==
    LET r == ConvertWidgets(FlattenWidgets(dd), 1, st, g.panels)
    IN  [grafana |-> [g EXCEPT
                         !.templating = ConvertTemplateVariables(
                                            @, dd.template_variables),
                         !.panels = r.panels],
         st      |-> r.st]

-----------------------------------------------------------------------------
(* DatadogDashboard.__init__ and validate_dashboard_file,                  *)
(* src/src/graang/datadog_dashboard.py and src/src/graang/validation.py.   *)
(* Texts are sequences of characters.                                      *)

MAX_FILE_SIZE_BYTES == 52428800

MAX_JSON_DEPTH == 100

MAX_PATH_LENGTH == 4096

\* GraangError(message, suggestions) of one of the error classes.
Error(class, message, suggestions) ==
    [class |-> class, message |-> message, suggestions |-> suggestions]

\* FileOperationError.file_not_found, src/src/graang/errors.py:130-140.
FileNotFoundPrefix ==
    <<"F", "i", "l", "e", " ", "n", "o", "t", " ", "f", "o", "u", "n", "d",
      ":", " ", "'">>

FileNotFoundSuggestions ==
    <<"Check if the file path is correct",
      "Verify the file exists in the specified location",
      "Use an absolute path instead of a relative path",
      "Check file permissions (readable by current user)">>

FileNotFound(path) ==
    Error("FileOperationError", FileNotFoundPrefix \o path \o <<"'">>,
          FileNotFoundSuggestions)

\* The other messages of validate_input_path.
PathTooLongPrefix ==
    <<"P", "a", "t", "h", " ", "t", "o", "o", " ", "l", "o", "n", "g", " ",
      "(", "m", "a", "x", " ", "4", "0", "9", "6", " ", "c", "h", "a", "r",
      "a", "c", "t", "e", "r", "s", ")", ":", " ">>

InvalidPathPrefix ==
    <<"I", "n", "v", "a", "l", "i", "d", " ", "p", "a", "t", "h", " ", "'">>

NotAFilePrefix ==
    <<"P", "a", "t", "h", " ", "i", "s", " ", "n", "o", "t", " ", "a", " ",
      "f", "i", "l", "e", ":", " ">>

InvalidTypePrefix ==
    <<"I", "n", "v", "a", "l", "i", "d", " ", "f", "i", "l", "e", " ", "t",
      "y", "p", "e", ".", " ", "E", "x", "p", "e", "c", "t", "e", "d", " ",
      "J", "S", "O", "N", " ", "f", "i", "l", "e", ",", " ", "g", "o", "t",
      ":", " ">>

TooLargePrefix ==
    <<"F", "i", "l", "e", " ", "t", "o", "o", " ", "l", "a", "r", "g", "e",
      ":", " ">>

TooLargeSuffix ==
    <<"M", "B", " ", "(", "m", "a", "x", " ", "5", "0", "M", "B", ")">>

EmptyFilePrefix ==
    <<"F", "i", "l", "e", " ", "i", "s", " ", "e", "m", "p", "t", "y", ":",
      " ">>

\* DashboardParsingError.invalid_json, errors.py:40-50.
InvalidJsonInfix ==
    <<"'", " ", "c", "o", "n", "t", "a", "i", "n", "s", " ", "i", "n", "v",
      "a", "l", "i", "d", " ", "J", "S", "O", "N", ":", " ">>

InvalidJsonSuggestions ==
    <<"Validate JSON syntax using a JSON validator (https://jsonlint.com)",
      "Check for missing commas, brackets, or quotes",
      "Ensure the file is a valid Datadog dashboard export",
      "Try re-exporting the dashboard from Datadog">>

\* The messages of load_and_validate_json.
EncodingErrorPrefix ==
    <<"F", "i", "l", "e", " ", "e", "n", "c", "o", "d", "i", "n", "g", " ",
      "e", "r", "r", "o", "r", " ", "i", "n", " ", "'">>

EncodingErrorSuffix ==
    <<".", " ", "E", "x", "p", "e", "c", "t", "e", "d", " ", "U", "T", "F",
      "-", "8", " ", "e", "n", "c", "o", "d", "e", "d", " ", "J", "S", "O",
      "N", " ", "f", "i", "l", "e", ".">>

ReadErrorPrefix ==
    <<"E", "r", "r", "o", "r", " ", "r", "e", "a", "d", "i", "n", "g", " ",
      "J", "S", "O", "N", " ", "f", "i", "l", "e", ":", " ">>

NotAnObjectText ==
    <<"D", "a", "s", "h", "b", "o", "a", "r", "d", " ", "d", "a", "t", "a",
      " ", "i", "s", " ", "n", "o", "t", " ", "a", " ", "v", "a", "l", "i",
      "d", " ", "J", "S", "O", "N", " ", "o", "b", "j", "e", "c", "t", ".",
      " ", "E", "x", "p", "e", "c", "t", "e", "d", " ", "a", " ", "J", "S",
      "O", "N", " ", "o", "b", "j", "e", "c", "t", " ", "a", "t", " ", "t",
      "h", "e", " ", "r", "o", "o", "t", " ", "l", "e", "v", "e", "l", ".">>

TooDeepText ==
    <<"J", "S", "O", "N", " ", "s", "t", "r", "u", "c", "t", "u", "r", "e",
      " ", "t", "o", "o", " ", "d", "e", "e", "p", "l", "y", " ", "n", "e",
      "s", "t", "e", "d", " ", "(", "m", "a", "x", " ", "d", "e", "p", "t",
      "h", ":", " ", "1", "0", "0", ")", ".", " ", "T", "h", "i", "s", " ",
      "m", "a", "y", " ", "i", "n", "d", "i", "c", "a", "t", "e", " ", "a",
      " ", "m", "a", "l", "f", "o", "r", "m", "e", "d", " ", "o", "r", " ",
      "m", "a", "l", "i", "c", "i", "o", "u", "s", " ", "f", "i", "l", "e",
      ".">>

\* DashboardParsingError.missing_structure("'widgets' or 'graphs'"), errors.py:53-63.
MissingStructureText ==
    <<"D", "a", "s", "h", "b", "o", "a", "r", "d", " ", "d", "o", "e", "s",
      " ", "n", "o", "t", " ", "c", "o", "n", "t", "a", "i", "n", " ", "'",
      "'", "w", "i", "d", "g", "e", "t", "s", "'", " ", "o", "r", " ", "'",
      "g", "r", "a", "p", "h", "s", "'", "'", " ", "s", "e", "c", "t", "i",
      "o", "n", ".">>

MissingStructureSuggestions ==
    <<"Ensure the dashboard JSON has a ''widgets' or 'graphs'' field at the root level",
      "Verify this is a Datadog dashboard export (not a Grafana or other format)",
      "Check if you're using the latest Datadog dashboard format",
      "Try exporting the dashboard again from Datadog">>

\* str(e) of an exception of the operating system or of the decoder.
ExceptionText ==
    <<"[", "E", "r", "r", "n", "o", " ", "1", "3", "]", " ", "P", "e", "r",
      "m", "i", "s", "s", "i", "o", "n", " ", "d", "e", "n", "i", "e", "d">>

\* f"{size_mb:.2f}" of a size just above the limit.
SizeText ==
    <<"5", "0", ".", "0", "0">>

\* The index of the last occurrence of c in s, 0 when there is none.
LastIndexOf(s, c) ==
    IF \E i \in 1..Len(s) : s[i] = c
    THEN CHOOSE i \in 1..Len(s) : s[i] = c /\ \A j \in (i + 1)..Len(s) : s[j] # c
    ELSE 0

\* Path.suffix: the last component from its last dot on, when that dot is
\* neither its first nor its last character.
Suffix(path) ==
    LET name == Drop(path, LastIndexOf(path, "/"))
        dot  == LastIndexOf(name, ".")
    IN  IF dot <= 1 \/ dot = Len(name) THEN <<>> ELSE Drop(name, dot - 1)

\* str.lower() on the letters the sample paths use.
LowerChar(c) ==
    CASE c = "J" -> "j" [] c = "S" -> "s" [] c = "O" -> "o" [] c = "N" -> "n"
      [] c = "T" -> "t" [] c = "X" -> "x" [] OTHER -> c

Lower(s) == [i \in 1..Len(s) |-> LowerChar(s[i])]

\* PathValidator.validate_input_path(file_path, must_exist=True),
\* validation.py:29-82: <<>> when the path is accepted, <<error>> otherwise.
ValidateInputPath(f) ==
    IF f.path_length > MAX_PATH_LENGTH
    THEN Some(Error("FileOperationError",
                    PathTooLongPrefix \o f.path \o <<".", ".", ".">>, <<>>))
    ELSE IF ~f.resolvable
    THEN Some(Error("FileOperationError",
                    InvalidPathPrefix \o f.path \o <<"'", ":", " ">>
                      \o ExceptionText, <<>>))
    ELSE IF ~f.exists THEN Some(FileNotFound(f.path))
    ELSE IF ~f.is_file
    THEN Some(Error("FileOperationError", NotAFilePrefix \o f.path, <<>>))
    ELSE IF Lower(Suffix(f.path)) # <<".", "j", "s", "o", "n">>
    THEN Some(Error("FileOperationError",
                    InvalidTypePrefix \o Suffix(f.path), <<>>))
    ELSE IF f.size > MAX_FILE_SIZE_BYTES
    THEN Some(Error("FileOperationError",
                    TooLargePrefix \o SizeText \o TooLargeSuffix, <<>>))
    ELSE IF f.size = 0
    THEN Some(Error("FileOperationError", EmptyFilePrefix \o f.path, <<>>))
    ELSE Absent

\* JSONValidator.load_and_validate_json, validation.py:199-244.
LoadAndValidateJson(f) ==
    IF f.content.kind = "invalid_json"
    THEN Some(Error("DashboardParsingError",
                    <<"'">> \o f.path \o InvalidJsonInfix \o ExceptionText,
                    InvalidJsonSuggestions))
    ELSE IF f.content.kind = "bad_encoding"
    THEN Some(Error("DashboardParsingError",
                    EncodingErrorPrefix \o f.path \o <<"'", ":", " ">>
                      \o ExceptionText \o EncodingErrorSuffix, <<>>))
    ELSE IF f.content.kind = "unreadable"
    THEN Some(Error("DashboardParsingError",
                    ReadErrorPrefix \o ExceptionText, <<>>))
    ELSE IF f.content.kind # "dict"
    THEN Some(Error("DashboardParsingError", NotAnObjectText, <<>>))
    ELSE IF f.content.depth > MAX_JSON_DEPTH
    THEN Some(Error("DashboardParsingError", TooDeepText, <<>>))
    ELSE Absent

\* validate_dashboard_structure, datadog_dashboard.py:46-58.
ValidateDashboardStructure(data) ==
    IF ~Has(data.widgets) /\ ~Has(data.graphs)
    THEN Some(Error("DashboardParsingError", MissingStructureText,
                    MissingStructureSuggestions))
    ELSE Absent

\* parse_dashboard, datadog_dashboard.py:60-84, on data that has 'widgets'
\* or 'graphs': the dashboard object.
ParseDashboard(data) ==
    IF Has(data.widgets)
    THEN [Dashboard(data.widgets[1], Get(data.template_variables, <<>>))
             EXCEPT !.title = Get(data.title, "Untitled Dashboard")]
    ELSE [Dashboard(data.graphs[1], <<>>) EXCEPT !.title = "Untitled Dashboard"]

\* DatadogDashboard(dashboard_path), datadog_dashboard.py:15-44: the error
\* raised, or the object constructed (is_valid is True on it).
LoadDashboard(f) ==
    IF Has(ValidateInputPath(f))
    THEN [error |-> ValidateInputPath(f), dashboard |-> Absent]
    ELSE IF Has(LoadAndValidateJson(f))
    THEN [error |-> LoadAndValidateJson(f), dashboard |-> Absent]
    ELSE IF Has(ValidateDashboardStructure(f.content))
    THEN [error |-> ValidateDashboardStructure(f.content), dashboard |-> Absent]
    ELSE [error |-> Absent, dashboard |-> Some(ParseDashboard(f.content))]

-----------------------------------------------------------------------------
(* Each specification below exercises one component; the other components *)
(* stay as constructed.                                                    *)

NoDocument == Dashboard(<<>>, <<>>)

NoGrafana == GrafanaInit(NoDocument, "")

ConverterIdle ==
    /\ datadog = NoDocument
    /\ grafana = NoGrafana
    /\ panel_id = 1
    /\ grid_pos = GridLayoutInit
    /\ ops = <<>>
    /\ returned = Absent

TranslatorIdle == query = <<>> /\ prom = Absent

NormalizerIdle == requests = Absent /\ targets = Absent

PackerIdle ==
    /\ grid_layout = GridLayoutInit
    /\ emitted = <<>>
    /\ last_call = Absent

SecondIdle == second = Absent

LoaderIdle == file = Absent /\ loaded = Absent

-----------------------------------------------------------------------------
(* The translator's specification: one call of                             *)
(* convert_datadog_query_to_prometheus on an input put together from       *)
(* MaxPieces pieces at most.                                               *)

QueryPieces ==
    {AvgToken, SumToken, MinToken, MaxToken,
     <<"m">>, <<"{">>, <<"}">>, <<"(">>, <<")">>, <<"[">>, <<"]">>,
     <<"{", "t", ":", "m", "}">>, <<"[", "1", "m", "]">>}

RECURSIVE Concat(_)
Concat(ss) == IF ss = <<>> THEN <<>> ELSE ss[1] \o Concat(Tail(ss))

QueryInputs == {Concat(ps) : ps \in SeqsUpTo(QueryPieces, MaxPieces)}

TranslatorInit ==
    /\ query \in QueryInputs
    /\ prom = Absent
    /\ PackerIdle
    /\ ConverterIdle
    /\ NormalizerIdle
    /\ SecondIdle
    /\ LoaderIdle

Translate ==
    /\ prom = Absent
    /\ prom' = Some(ConvertDatadogQueryToPrometheus(query))
    /\ UNCHANGED <<second, file, loaded, grid_layout, emitted, last_call, datadog, grafana,
                   panel_id, grid_pos, ops, returned, query, requests,
                   targets>>

TranslatorNext == Translate

TranslatorSpec == TranslatorInit /\ [][TranslatorNext]_vars

\* C5 as claimed: for every input string, the output has as many '(' as
\* ')' characters.
C5_ParensBalanced ==
    Has(prom) => Count(prom[1], "(") = Count(prom[1], ")")

\* C5 as amended: the output never has more '(' than ')', and has as many of
\* each whenever the input, after the aggregator replacements, has no more
\* ')' than '('.
C5_ParensClosed ==
    Has(prom) =>
        /\ Count(prom[1], "(") <= Count(prom[1], ")")
        /\ Count(ReplaceFunctions(query), ")") <= Count(ReplaceFunctions(query), "(")
              => Count(prom[1], "(") = Count(prom[1], ")")

\* An input with two aggregators and an opening parenthesis: three closing
\* parentheses were added.
C5_Witness ==
    /\ Has(prom)
    /\ query = AvgToken \o <<"(">> \o SumToken
    /\ Count(prom[1], ")") = 3

\* The table of C6: aggregator token and the function it is replaced by.
AggregatorTable ==
    {[token |-> AvgToken, fn |-> AvgFunction],
     [token |-> SumToken, fn |-> SumFunction],
     [token |-> MinToken, fn |-> MinFunction],
     [token |-> MaxToken, fn |-> MaxFunction]}

Contains(s, pat) ==
    \E i \in 0..(Len(s) - Len(pat)) : SubSeq(s, i + 1, i + Len(pat)) = pat

\* No parenthesis, bracket, brace or aggregator token in s.
PlainText(s) ==
    /\ \A i \in 1..Len(s) : s[i] \notin {"(", ")", "[", "]", "{", "}"}
    /\ \A a \in AggregatorTable : ~Contains(s, a.token)

\* C6: for every query '<agg>:<metric>{<tags>}' with agg one of avg, sum,
\* min, max, a non-empty tag text and plain metric and tags, the output is
\* '<fn>(<metric>{{<tags>}})[5m]' with fn avg_over_time, sum,
\* min_over_time, max_over_time respectively.
C6_SimpleQueryTranslation ==
    Has(prom) =>
        \A a \in AggregatorTable : \A i \in 1..Len(query) :
            LET metric == SubSeq(query, Len(a.token) + 1, i - 1)
                tags   == SubSeq(query, i + 1, Len(query) - 1)
            IN  ( /\ StartsWith(query, a.token)
                  /\ i > Len(a.token)
                  /\ query[i] = "{"
                  /\ query[Len(query)] = "}"
                  /\ Len(tags) >= 1
                  /\ PlainText(metric)
                  /\ PlainText(tags) )
                => prom[1] = a.fn \o metric \o <<"{", "{">> \o tags
                               \o <<"}", "}">> \o <<")">> \o DefaultTimeRange

\* 'sum:m{t:m}' was translated to 'sum(m{{t:m}})[5m]'.
C6_Witness ==
    /\ Has(prom)
    /\ query = SumToken \o <<"m">> \o <<"{", "t", ":", "m", "}">>
    /\ prom[1] = <<"s", "u", "m", "(", "m", "{", "{", "t", ":", "m", "}", "}",
                   ")", "[", "5", "m", "]">>

-----------------------------------------------------------------------------
(* The normalizer's specification: one call of convert_requests_to_targets *)
(* on a requests field holding MaxRequests requests at most.               *)

Query1 == AvgToken \o <<"m">>

Query2 == <<"m", "{", "t", "}">>

SampleRequests ==
    {NoneRequest,
     EmptyRequest,
     [EmptyRequest EXCEPT !.q = Some(Query1)],
     [EmptyRequest EXCEPT !.query = Some(Query2), !.display_name = Some("cpu")],
     [EmptyRequest EXCEPT !.queries = Some(<<>>)],
     [EmptyRequest EXCEPT !.queries = Some(<<[query |-> Some(Query1)],
                                             [query |-> Some(Query2)]>>)]}

MetricsKey == <<"m", "e", "t", "r", "i", "c", "s">>
LogsKey == <<"l", "o", "g", "s">>
Logs0Key == <<"l", "o", "g", "s", "_", "0">>

SampleKeys == {MetricsKey, LogsKey, Logs0Key}

\* The values of a dictionary entry that hold exactly n requests: a list
\* of n requests or, for n = 1, one request dictionary.
EntryValues(n) ==
    {ListValue(items) : items \in [1..n -> SampleRequests]}
      \cup (IF n = 1 THEN {DictValue(r) : r \in SampleRequests \ {NoneRequest}}
            ELSE {})

\* The orders in which a dictionary can hold some of the sample keys.
KeyOrders ==
    {ks \in SeqsUpTo(SampleKeys, Cardinality(SampleKeys)) :
        \A i, j \in 1..Len(ks) : ks[i] = ks[j] => i = j}

\* The dictionary with the keys ks, in this order, and the values vs[i].
DictOf(ks, vs) ==
    RequestDict([i \in 1..Len(ks) |-> [key |-> ks[i], value |-> vs[i]]])

\* A requests field: a list of MaxRequests requests at most, or a
\* dictionary over the sample keys holding MaxRequests requests at most.
NormalizerInit ==
    /\ \/ requests = Some(NoRequests)
       \/ \E items \in SeqsUpTo(SampleRequests, MaxRequests) :
             requests = Some(RequestList(items))
       \/ \E ks \in KeyOrders :
          \E m1 \in 0..MaxRequests :
          \E m2 \in 0..(MaxRequests - m1) :
          \E m3 \in 0..(MaxRequests - m1 - m2) :
          \E v1 \in EntryValues(m1), v2 \in EntryValues(m2), v3 \in EntryValues(m3) :
             /\ Len(ks) < 3 => m3 = 0 /\ v3 = ListValue(<<>>)
             /\ Len(ks) < 2 => m2 = 0 /\ v2 = ListValue(<<>>)
             /\ Len(ks) < 1 => m1 = 0 /\ v1 = ListValue(<<>>)
             /\ requests = Some(DictOf(ks, <<v1, v2, v3>>))
    /\ targets = Absent
    /\ PackerIdle
    /\ ConverterIdle
    /\ TranslatorIdle
    /\ SecondIdle
    /\ LoaderIdle

Normalize ==
    /\ targets = Absent
    /\ targets' = Some(ConvertRequestsToTargets(requests[1], "prometheus"))
    /\ UNCHANGED <<second, file, loaded, grid_layout, emitted, last_call, datadog, grafana,
                   panel_id, grid_pos, ops, returned, query, prom, requests>>

NormalizerNext == Normalize

NormalizerSpec == NormalizerInit /\ [][NormalizerNext]_vars

\* The orders in which the entries of a dictionary can be iterated.
IterationOrders(n) == {p \in [1..n -> 1..n] : \A i, j \in 1..n : p[i] = p[j] => i = j}

Reordered(entries) ==
    {[i \in 1..Len(entries) |-> entries[p[i]]] : p \in IterationOrders(Len(entries))}

ExprRefIdPairs(ts) == {<<ts[i].expr, ts[i].refId>> : i \in 1..Len(ts)}

\* C10: for a requests field that is a mapping, the number of targets and
\* the set of (expression, referenceId) pairs do not depend on the order of
\* the mapping's keys; {metrics: [one query], logs: [one query]} gives
\* exactly 2 targets in either key order.
C10_KeyOrderIndependent ==
    (Has(targets) /\ requests[1].kind = "dict") =>
        /\ \A entries \in Reordered(requests[1].entries) :
              LET ts == ConvertRequestsToTargets(RequestDict(entries), "prometheus")
              IN  /\ Len(ts) = Len(targets[1])
                  /\ ExprRefIdPairs(ts) = ExprRefIdPairs(targets[1])
        /\ ( /\ Len(requests[1].entries) = 2
             /\ {requests[1].entries[i].key : i \in 1..2} = {MetricsKey, LogsKey}
             /\ \A i \in 1..2 :
                   /\ requests[1].entries[i].value.kind = "list"
                   /\ Len(requests[1].entries[i].value.items) = 1
                   /\ ExtractQuery(requests[1].entries[i].value.items[1]) # <<>> )
           => Len(targets[1]) = 2

\* {logs: [q], metrics: [q]}, the keys in the order opposite to the
\* example's, gave two targets, logs_0 and metrics_0.
C10_Witness ==
    /\ Has(targets)
    /\ requests[1].kind = "dict"
    /\ Len(requests[1].entries) = 2
    /\ requests[1].entries[1].key = LogsKey
    /\ requests[1].entries[2].key = MetricsKey
    /\ Len(targets[1]) = 2
    /\ targets[1][1].refId = LogsKey \o <<"_", "0">>
    /\ targets[1][2].refId = MetricsKey \o <<"_", "0">>

-----------------------------------------------------------------------------
(* The packer's specification: calls of get_next_grid_position on one     *)
(* GridLayoutCalculator.                                                   *)

WidthPercents == {-10, 1, 50, 66, 150}

HeightPercents == {1, 25, 200}

PackerTypes == ImportantTypes \cup {"note"}

PackerLayouts ==
    {NoLayout}
      \cup {Layout(Some(w), Some(h)) : w \in WidthPercents, h \in HeightPercents}
      \cup {Layout(Some(50), Absent), Layout(Absent, Some(25))}

\* The layouts without a size: the kind decides the width.
UnsizedLayouts == {l \in PackerLayouts : ~HasLayoutSize([layout |-> l])}

\* Every kind with every layout that leaves the size to the kind, and a
\* primary kind, another kind and a widget without definition with every
\* layout.
PackerWidgets ==
    {[Leaf(0, t) EXCEPT !.layout = l] : t \in PackerTypes, l \in UnsizedLayouts}
      \cup {[Leaf(0, t) EXCEPT !.layout = l] :
                t \in {"timeseries", "note"}, l \in PackerLayouts}
      \cup {[Widget(0, Absent) EXCEPT !.layout = l] : l \in PackerLayouts}

PackerInit ==
    /\ PackerIdle
    /\ ConverterIdle
    /\ TranslatorIdle
    /\ NormalizerIdle
    /\ SecondIdle
    /\ LoaderIdle

PackerCall(widget) ==
    /\ Len(emitted) < MaxCalls
    /\ LET r == GetNextGridPosition(grid_layout, widget)
       IN  /\ grid_layout' = r.next
           /\ emitted' = Append(emitted, r.pos)
           /\ last_call' = Some([widget |-> widget, at |-> grid_layout,
                                 pos |-> r.pos])
    /\ UNCHANGED <<second, file, loaded, datadog, grafana, panel_id, grid_pos, ops, returned,
                   query, prom, requests, targets>>

PackerNext == \E widget \in PackerWidgets : PackerCall(widget)

PackerSpec == PackerInit /\ [][PackerNext]_vars

\* C1: after any sequence of get_next_grid_position calls on one packer,
\* every emitted position has x >= 0, y >= 0, w >= 1, h >= 1 and
\* x + w <= 24.
C1_GridPositionInvariant ==
    \A i \in 1..Len(emitted) :
        /\ emitted[i].x >= 0
        /\ emitted[i].y >= 0
        /\ emitted[i].w >= 1
        /\ emitted[i].h >= 1
        /\ emitted[i].x + emitted[i].w <= 24

\* A run in which a width of 150 percent was asked for after a row was
\* started, so that the clamp and the wrap both acted.
C1_Witness ==
    /\ Len(emitted) >= 2
    /\ Has(last_call)
    /\ last_call[1].widget.layout = Layout(Some(150), Some(200))
    /\ last_call[1].at.x > 0
    /\ last_call[1].pos.y > 0

\* C7: a primary-kind widget without a layout size is given w = 24, h = 8
\* when the cursor x is 0 at the time of the call (so {0, 0, 24, 8} on an
\* empty packer), and w = 12, h = 8 when the cursor x is not 0.
C7_PrimaryDefaultSize ==
    Has(last_call) =>
        LET c == last_call[1]
        IN  (WidgetType(c.widget) \in ImportantTypes /\ ~Has(c.widget.layout)) =>
                /\ c.at.x = 0 => (c.pos.w = 24 /\ c.pos.h = 8)
                /\ c.at.x # 0 => (c.pos.w = 12 /\ c.pos.h = 8)
                /\ Len(emitted) = 1 =>
                       c.pos = [x |-> 0, y |-> 0, w |-> 24, h |-> 8]

\* Both cases happened: a primary widget called with the cursor inside a row.
C7_Witness ==
    /\ Has(last_call)
    /\ WidgetType(last_call[1].widget) = "hostmap"
    /\ ~Has(last_call[1].widget.layout)
    /\ last_call[1].at.x = 12
    /\ last_call[1].pos.w = 12
    /\ emitted[1] = [x |-> 0, y |-> 0, w |-> 24, h |-> 8]

-----------------------------------------------------------------------------
(* The converter's specification: a converter constructed on a document,   *)
(* then MaxOps invocations at most of convert, _convert_widget_to_panel    *)
(* (on a top-level widget of the document) and                              *)
(* _convert_template_variables.                                            *)

\* A group without the 'widgets' key.
GroupNoWidgets(id) == Leaf(id, "group")

Group(id, children) ==
    Widget(id, Some([Definition("group") EXCEPT !.widgets = Some(children)]))

\* The widgets without children: a leaf of two kinds, a widget without definition, a
\* group without the 'widgets' key.
Atoms ==
    {Leaf(0, "timeseries"), Leaf(0, "note"), Widget(0, Absent), GroupNoWidgets(0)}

\* The widget lists of exactly n widgets, descendants counted, all ids 0.
RECURSIVE ForestsOfSize(_)
RECURSIVE TreesOfSize(_)
ForestsOfSize(n) ==
    IF n = 0 THEN {<<>>}
    ELSE UNION {{<<t>> \o rest : t \in TreesOfSize(k),
                                 rest \in ForestsOfSize(n - k)} : k \in 1..n}

TreesOfSize(k) ==
    (IF k = 1 THEN Atoms ELSE {})
      \cup {Group(0, children) : children \in ForestsOfSize(k - 1)}

\* widgets with the ids from, from + 1, ... given in document order, and
\* the first id not given.
RECURSIVE Relabel(_, _)
Relabel(widgets, from) ==
    IF widgets = <<>> THEN [widgets |-> <<>>, next |-> from]
    ELSE LET widget == widgets[1]
             inner  == IF IsGroupWithWidgets(widget)
                       THEN Relabel(widget.definition[1].widgets[1], from + 1)
                       ELSE [widgets |-> <<>>, next |-> from + 1]
             head   == IF IsGroupWithWidgets(widget)
                       THEN Group(from, inner.widgets)
                       ELSE [widget EXCEPT !.id = from]
             rest   == Relabel(Tail(widgets), inner.next)
         IN  [widgets |-> <<head>> \o rest.widgets, next |-> rest.next]

StructuredWidgetLists ==
    UNION {ForestsOfSize(n) : n \in 0..MaxWidgets}

WidgetTitle == "Widget Title"

DefinitionTitle == "Definition Title"

Titled(widget, title, definition_title) ==
    [widget EXCEPT !.title = title,
                   !.definition = Some([widget.definition[1] EXCEPT
                                            !.title = definition_title])]

WithRequests(widget, reqs) ==
    [widget EXCEPT !.definition = Some([widget.definition[1] EXCEPT
                                            !.requests = Some(reqs)])]

WithContent(widget, content) ==
    [widget EXCEPT !.definition = Some([widget.definition[1] EXCEPT
                                            !.content = Some(content)])]

SupportedTypes ==
    {"timeseries", "query_value", "toplist", "note", "heatmap", "hostmap",
     "event_stream"}

\* Types outside the dispatch chain; "unknown" is also a definition without
\* the 'type' key.
UnsupportedTypes == {"sunburst", "unknown"}

\* Widgets without children, with their optional attributes.
SampleWidgets ==
    {Leaf(0, t) : t \in SupportedTypes \cup UnsupportedTypes}
      \cup {Titled(Leaf(0, "timeseries"), t, d) :
               t \in {Absent, Some(""), Some(WidgetTitle)},
               d \in {Absent, Some(""), Some(DefinitionTitle)}}
      \cup {WithRequests(Titled(Leaf(0, "timeseries"), Absent, Some(DefinitionTitle)),
                         RequestList(<<>>)),
            WithRequests(Leaf(0, "timeseries"),
                         RequestList(<<[EmptyRequest EXCEPT !.q = Some(Query1)],
                                       EmptyRequest>>)),
            WithRequests(Leaf(0, "toplist"),
                         DictOf(<<MetricsKey>>,
                                <<ListValue(<<[EmptyRequest EXCEPT
                                                  !.query = Some(Query2)]>>)>>)),
            WithContent(Leaf(0, "note"), "hello"),
            WithContent(Leaf(0, "note"), ""),
            [Leaf(0, "timeseries") EXCEPT !.layout = Layout(Some(50), Some(25))],
            [Leaf(0, "note") EXCEPT !.layout = Layout(Some(150), Some(1))],
            [Leaf(0, "sunburst") EXCEPT !.title = Some(WidgetTitle)]}

NoVariable ==
    [name |-> Absent, prefix |-> Absent, default |-> Absent, values |-> Absent]

SampleVariables ==
    {NoVariable,
     [NoVariable EXCEPT !.name = Some("env"), !.prefix = Some("env"),
                        !.default = Some("prod")],
     [NoVariable EXCEPT !.name = Some("host"), !.values = Some(<<"a", "b">>)]}

\* The documents: every structure of MaxWidgets widgets, every list of
\* MaxFlat sample widgets, and a few widget lists with MaxVariables template
\* variables.
Documents ==
    {Dashboard(Relabel(widgets, 1).widgets, <<>>) :
        widgets \in StructuredWidgetLists \cup SeqsUpTo(SampleWidgets, MaxFlat)}
      \cup {Dashboard(Relabel(widgets, 1).widgets, variables) :
               widgets \in {<<>>, <<Leaf(0, "timeseries")>>,
                            <<Group(0, <<Leaf(0, "note")>>)>>},
               variables \in SeqsUpTo(SampleVariables, MaxVariables)}

\* DatadogToGrafanaConverter(dashboard)
Uids == {"1a2b3c4d", "9f8e7d6c"}

ConverterInit ==
    /\ datadog \in Documents
    /\ \E uid \in Uids : grafana = GrafanaInit(datadog, uid)
    /\ panel_id = 1
    /\ grid_pos = GridLayoutInit
    /\ ops = <<>>
    /\ returned = Absent
    /\ PackerIdle
    /\ TranslatorIdle
    /\ NormalizerIdle
    /\ SecondIdle
    /\ LoaderIdle

\* convert()
Convert ==
    /\ Len(ops) < MaxOps
    /\ LET r == ConvertOn(datadog, grafana, ConverterState(panel_id, grid_pos))
       IN  /\ grafana' = r.grafana
           /\ panel_id' = r.st.panel_id
           /\ grid_pos' = r.st.grid_pos
           /\ returned' = Some(r.grafana)
    /\ ops' = Append(ops, "convert")
    /\ UNCHANGED <<second, file, loaded, datadog, grid_layout, emitted, last_call, query, prom,
                   requests, targets>>

\* _convert_widget_to_panel(widget), called by itself.
ConvertWidget(widget) ==
    /\ Len(ops) < MaxOps
    /\ LET r == ConvertWidgetToPanel(ConverterState(panel_id, grid_pos), widget)
       IN  /\ panel_id' = r.st.panel_id
           /\ grid_pos' = r.st.grid_pos
           /\ returned' = r.panel
    /\ ops' = Append(ops, "_convert_widget_to_panel")
    /\ UNCHANGED <<second, file, loaded, datadog, grafana, grid_layout, emitted, last_call, query,
                   prom, requests, targets>>

\* _convert_template_variables(), called by itself.
ConvertVariables ==
    /\ Len(ops) < MaxOps
    /\ grafana' = [grafana EXCEPT
                      !.templating = ConvertTemplateVariables(
                                         @, datadog.template_variables)]
    /\ returned' = Absent
    /\ ops' = Append(ops, "_convert_template_variables")
    /\ UNCHANGED <<second, file, loaded, datadog, panel_id, grid_pos, grid_layout, emitted,
                   last_call, query, prom, requests, targets>>

ConverterNext ==
    \/ Convert
    \/ \E i \in 1..Len(datadog.widgets) : ConvertWidget(datadog.widgets[i])
    \/ ConvertVariables

ConverterSpec == ConverterInit /\ [][ConverterNext]_vars

\* The ids of all the widgets of a list, groups and their descendants
\* included, in document order (depth-first pre-order).
RECURSIVE DocumentOrder(_)
DocumentOrder(widgets) ==
    IF widgets = <<>> THEN <<>>
    ELSE <<widgets[1].id>>
           \o (IF IsGroupWithWidgets(widgets[1])
               THEN DocumentOrder(widgets[1].definition[1].widgets[1])
               ELSE <<>>)
           \o DocumentOrder(Tail(widgets))

\* The place of the widget with this id in the document.
DocumentIndex(id) ==
    LET order == DocumentOrder(datadog.widgets)
    IN  CHOOSE i \in 1..Len(order) : order[i] = id

IsTopLevel(widget) ==
    \E i \in 1..Len(datadog.widgets) : datadog.widgets[i].id = widget.id

\* The widgets that have a definition of a type other than 'group', at any
\* depth.
RECURSIVE LeafIds(_)
LeafIds(widgets) ==
    IF widgets = <<>> THEN {}
    ELSE (IF IsGroupWithWidgets(widgets[1])
          THEN LeafIds(widgets[1].definition[1].widgets[1])
          ELSE IF Has(widgets[1].definition)
                  /\ widgets[1].definition[1].type # "group"
          THEN {widgets[1].id}
          ELSE {})
         \cup LeafIds(Tail(widgets))

FlatIds(flat) == {flat[i].id : i \in 1..Len(flat)}

\* One convert() has run on the freshly constructed converter.
OneConvert == ops = <<"convert">>

\* C2: in one convert() on a freshly constructed converter the ids of the
\* emitted panels are 1, 2, ..., n in emission order, n the number of
\* flattened widgets: one panel per flattened widget, no gap, no repeat, and
\* the widgets that yield no panel consume no id.
C2_PanelIdsSequential ==
    OneConvert =>
        /\ Len(grafana.panels) = Len(FlattenWidgets(datadog))
        /\ \A i \in 1..Len(grafana.panels) : grafana.panels[i].id = i
        /\ panel_id = Len(grafana.panels) + 1

\* A document with a widget that yields no panel ahead of two leaves has
\* been converted.
C2_Witness ==
    /\ OneConvert
    /\ Len(grafana.panels) >= 2
    /\ Len(datadog.widgets) >= 1
    /\ ~Has(datadog.widgets[1].definition)
    /\ grafana.panels[2].id = 2

\* C3 as stated: flatten returns the leaf widgets in document order; of two
\* returned widgets, the one that comes first in the document comes first
\* in the flattened sequence, top-level or nested.
C3_FlattenDocumentOrder ==
    LET flat == FlattenWidgets(datadog)
    IN  \A i, j \in 1..Len(flat) :
            DocumentIndex(flat[i].id) < DocumentIndex(flat[j].id) => i < j

\* C3 as amended: flatten returns every leaf widget once, the top-level
\* leaves first, in document order, and after them the widgets nested in
\* groups, in document order; of two returned widgets that are both
\* top-level or both nested, the one that comes first in the document comes
\* first in the flattened sequence.
C3_FlattenTopLevelThenNested ==
    LET flat == FlattenWidgets(datadog)
    IN  /\ LeafIds(datadog.widgets) \subseteq FlatIds(flat)
        /\ \A i, j \in 1..Len(flat) :
              /\ flat[i].id = flat[j].id => i = j
              /\ i < j /\ IsTopLevel(flat[j]) => IsTopLevel(flat[i])
              /\ (IsTopLevel(flat[i]) <=> IsTopLevel(flat[j]))
                   /\ DocumentIndex(flat[i].id) < DocumentIndex(flat[j].id)
                 => i < j

\* A top-level leaf stands after a group in the document and before that
\* group's leaf in the flattened sequence.
C3_Witness ==
    LET flat == FlattenWidgets(datadog)
    IN  /\ Len(flat) >= 2
        /\ IsTopLevel(flat[1])
        /\ ~IsTopLevel(flat[2])
        /\ DocumentIndex(flat[2].id) < DocumentIndex(flat[1].id)

\* C4 as stated: flatten is idempotent; the flattened sequence, taken as
\* the widget list of a new document, flattens to itself.
C4_FlattenIdempotent ==
    FlattenWidgets(Dashboard(FlattenWidgets(datadog), <<>>))
        = FlattenWidgets(datadog)

\* The title the priority chain of the claim resolves for a widget.
TitleByPriority(widget) ==
    IF Has(widget.definition[1].title) THEN widget.definition[1].title[1]
    ELSE IF Has(widget.title) THEN widget.title[1]
    ELSE "Untitled Panel"

\* C8 as stated: the title of every emitted panel is the title of the
\* widget's definition if present, otherwise the widget-level title if
\* present, otherwise 'Untitled Panel'.
C8_TitlePriorityChain ==
    OneConvert =>
        LET flat == FlattenWidgets(datadog)
        IN  \A i \in 1..Len(grafana.panels) :
                i <= Len(flat) =>
                    grafana.panels[i].title = TitleByPriority(flat[i])

\* C9: convert() completes whatever the kinds of the widgets are, returns
\* the document and has emitted one panel per flattened widget in flatten
\* order; a widget of a kind
\* outside the conversion table yields a panel of type 'text' whose content
\* names the kind.
C9_UnsupportedKindTextPanel ==
    OneConvert =>
        LET flat == FlattenWidgets(datadog)
        IN  /\ returned = Some(grafana)
            /\ Len(grafana.panels) = Len(flat)
            /\ \A i \in 1..Len(flat) :
                  flat[i].definition[1].type \notin SupportedTypes =>
                      /\ grafana.panels[i].type = "text"
                      /\ grafana.panels[i].content =
                            <<"Unsupported Datadog widget type: ",
                              flat[i].definition[1].type>>

\* A widget of the kind 'sunburst' has been converted to a text panel.
C9_Witness ==
    /\ OneConvert
    /\ Len(grafana.panels) >= 1
    /\ FlattenWidgets(datadog)[1].definition[1].type = "sunburst"
    /\ grafana.panels[1].type = "text"
    /\ grafana.panels[1].content[2] = "sunburst"

\* The targets a panel carries.
PanelTargets(panel) ==
    IF "targets" \in DOMAIN panel THEN panel.targets ELSE <<>>

\* C11: a widget of kind 'note' converts to a panel of type 'text' whose
\* content is the content of the definition, the empty string when it is
\* empty or absent, and which carries no targets.
C11_NoteTextPanel ==
    OneConvert =>
        LET flat == FlattenWidgets(datadog)
        IN  \A i \in 1..Len(flat) :
                flat[i].definition[1].type = "note" =>
                    /\ grafana.panels[i].type = "text"
                    /\ grafana.panels[i].content =
                          <<Get(flat[i].definition[1].content, "")>>
                    /\ PanelTargets(grafana.panels[i]) = <<>>

\* A note with the content 'hello' has been converted.
C11_Witness ==
    /\ OneConvert
    /\ Len(grafana.panels) >= 1
    /\ FlattenWidgets(datadog)[1].definition[1].type = "note"
    /\ FlattenWidgets(datadog)[1].definition[1].content = Some("hello")
    /\ grafana.panels[1].content = <<"hello">>

BasePanelFields == {"id", "type", "title", "gridPos"}

HasBaseFields(panel) ==
    /\ BasePanelFields \subseteq DOMAIN panel
    /\ DOMAIN panel.gridPos = {"x", "y", "w", "h"}

\* C12 as stated: every panel of the document convert() returns has the
\* fields id, type, title, gridPos {x, y, w, h} and targets, whatever the
\* kind of its widget.
C12_PanelFieldsWithTargets ==
    \A i \in 1..Len(grafana.panels) :
        /\ HasBaseFields(grafana.panels[i])
        /\ "targets" \in DOMAIN grafana.panels[i]

\* C12 as amended: every panel of the document convert() returns has the
\* fields id, type, title and gridPos {x, y, w, h}; a panel of a type other
\* than 'text' has the field targets, a list, and a panel of type 'text' (a
\* note or a widget of an unrecognized kind) has the fields content and mode
\* and no field targets.
C12_PanelFields ==
    \A i \in 1..Len(grafana.panels) :
        LET panel == grafana.panels[i]
        IN  /\ HasBaseFields(panel)
            /\ panel.type # "text" =>
                  /\ "targets" \in DOMAIN panel
                  /\ DOMAIN panel.targets = 1..Len(panel.targets)
            /\ panel.type = "text" =>
                  /\ "targets" \notin DOMAIN panel
                  /\ {"content", "mode"} \subseteq DOMAIN panel

\* A document with a note and a timeseries has been converted: one panel
\* without targets, one with.
C12_Witness ==
    /\ OneConvert
    /\ \E i, j \in 1..Len(grafana.panels) :
          /\ grafana.panels[i].type = "text"
          /\ "targets" \notin DOMAIN grafana.panels[i]
          /\ grafana.panels[j].type = "timeseries"
          /\ "targets" \in DOMAIN grafana.panels[j]

\* C14: after convert() on a fresh converter templating.list has one record
\* per template variable of the source, in source order, with its name, its
\* prefix as query, its default as current value and one option per value,
\* whatever the widgets are.
C14_TemplateVariablesOneToOne ==
    OneConvert =>
        /\ Len(grafana.templating) = Len(datadog.template_variables)
        /\ \A i \in 1..Len(grafana.templating) :
              LET var == datadog.template_variables[i]
                  out == grafana.templating[i]
              IN  /\ out.name = Get(var.name, "")
                  /\ out.query = Get(var.prefix, "")
                  /\ Has(var.default) =>
                        out.current = Some([value |-> var.default[1],
                                            text |-> var.default[1]])
                  /\ ~Has(var.default) => out.current = Absent
                  /\ Len(out.options) = Len(Get(var.values, <<>>))
                  /\ \A k \in 1..Len(out.options) :
                        out.options[k] = [text |-> var.values[1][k],
                                          value |-> var.values[1][k]]

\* Two different variables, one with values, have been converted along
\* with a widget.
C14_Witness ==
    /\ OneConvert
    /\ Len(grafana.templating) = 2
    /\ grafana.templating[1].name = "env"
    /\ grafana.templating[1].current = Some([value |-> "prod", text |-> "prod"])
    /\ Len(grafana.templating[2].options) = 2
    /\ Len(grafana.panels) = 1

\* The table of the claim.
PanelTypeOf(kind) ==
    CASE kind = "timeseries"   -> "timeseries"
      [] kind = "query_value"  -> "stat"
      [] kind = "toplist"      -> "bargauge"
      [] kind = "note"         -> "text"
      [] kind = "heatmap"      -> "heatmap"
      [] kind = "hostmap"      -> "table"
      [] kind = "event_stream" -> "logs"

\* The leaves of a widget list in document order (depth-first pre-order).
RECURSIVE LeavesInDocumentOrder(_)
LeavesInDocumentOrder(widgets) ==
    IF widgets = <<>> THEN <<>>
    ELSE (IF IsGroupWithWidgets(widgets[1])
          THEN LeavesInDocumentOrder(widgets[1].definition[1].widgets[1])
          ELSE IF Has(widgets[1].definition)
                  /\ widgets[1].definition[1].type # "group"
          THEN <<widgets[1]>>
          ELSE <<>>)
         \o LeavesInDocumentOrder(Tail(widgets))

\* The panels are those of the widgets of sources, in that order, typed by
\* the table.
TypedInOrderOf(sources) ==
    \A i \in 1..Len(sources) :
        sources[i].definition[1].type \in SupportedTypes =>
            /\ i <= Len(grafana.panels)
            /\ grafana.panels[i].type = PanelTypeOf(sources[i].definition[1].type)

\* C16 as stated: the type of a panel is given by the table from the kind
\* of its widget alone, and the panels come in the order of their widgets
\* in the source.
C16_TypeTableDocumentOrder ==
    OneConvert => TypedInOrderOf(LeavesInDocumentOrder(datadog.widgets))

\* C16 as amended: the type of a panel is given by the table from the kind
\* of its widget alone, and the panels come in flatten order: the panels of
\* the top-level widgets in document order, then the panels of the widgets
\* nested in groups in document order.
C16_TypeTableFlattenOrder ==
    OneConvert => TypedInOrderOf(FlattenWidgets(datadog))

\* A note nested in a group and a timeseries after the group have been
\* converted: the timeseries panel comes first.
C16_Witness ==
    /\ OneConvert
    /\ Len(grafana.panels) = 2
    /\ Len(LeavesInDocumentOrder(datadog.widgets)) = 2
    /\ LeavesInDocumentOrder(datadog.widgets)[1].definition[1].type = "note"
    /\ LeavesInDocumentOrder(datadog.widgets)[2].definition[1].type = "timeseries"
    /\ grafana.panels[1].type = "timeseries"
    /\ grafana.panels[2].type = "text"

\* Only convert() has been invoked on the converter, once at least.
OnlyConverts ==
    /\ ops # <<>>
    /\ \A i \in 1..Len(ops) : ops[i] = "convert"

\* C18 as stated: whatever the number of earlier convert() invocations,
\* convert() returns a document whose panel ids start at 1, whose first
\* panel is at x = 0, y = 0, and whose panels and templating.list are as
\* long as after the first invocation.
C18_ConvertStartsAfresh ==
    OnlyConverts =>
        LET doc == returned[1]
        IN  /\ Len(doc.panels) = Len(FlattenWidgets(datadog))
            /\ Len(doc.templating) = Len(datadog.template_variables)
            /\ doc.panels # <<>> =>
                  /\ doc.panels[1].id = 1
                  /\ doc.panels[1].gridPos.x = 0
                  /\ doc.panels[1].gridPos.y = 0

\* The greatest of a non-empty set of numbers.
Greatest(S) == CHOOSE m \in S : \A n \in S : n <= m

\* The maximum h of the panels of the row of positions[i].
RowHeight(positions, i) ==
    Greatest({positions[k].h : k \in {k \in 1..Len(positions) :
                                        positions[k].y = positions[i].y}})

\* q is placed right after p by the row-major greedy rule.
PlacedAfter(positions, i) ==
    LET p == positions[i]
        q == positions[i + 1]
    IN  \/ /\ p.x + p.w + q.w <= 24
           /\ q.y = p.y
           /\ q.x = p.x + p.w
        \/ /\ p.x + p.w + q.w > 24
           /\ q.x = 0
           /\ q.y = p.y + RowHeight(SubSeq(positions, 1, i), i)
           /\ q.y > p.y

\* C19: of two consecutively emitted positions p then q of one packer,
\* either q fits (p.x + p.w + q.w <= 24) and stands on the row of p right
\* after it, or it does not and q starts a new row at x = 0 below the
\* highest panel of the row of p; y never decreases, and no later panel
\* stands on an earlier row.
C19_RowMajorGreedy ==
    /\ \A i \in 1..(Len(emitted) - 1) : PlacedAfter(emitted, i)
    /\ \A i, j \in 1..Len(emitted) : i < j => emitted[i].y <= emitted[j].y

\* A row of two panels of different heights was followed by a wrap.
C19_Witness ==
    /\ Len(emitted) = 3
    /\ emitted[2].y = emitted[1].y
    /\ emitted[2].x = emitted[1].w
    /\ emitted[1].h > emitted[2].h
    /\ emitted[3].x = 0
    /\ emitted[3].y = emitted[1].h

Disjoint(p, q) ==
    \/ p.x + p.w <= q.x
    \/ q.x + q.w <= p.x
    \/ p.y + p.h <= q.y
    \/ q.y + q.h <= p.y

\* The sum of the heights of the rows above the row at y, the height of a
\* row being the greatest h on it.
RECURSIVE RowsAbove(_, _)
RowsAbove(positions, y) ==
    LET above == {k \in 1..Len(positions) : positions[k].y < y}
    IN  IF above = {} THEN 0
        ELSE LET top == Greatest({positions[k].y : k \in above})
                 k   == CHOOSE k \in above : positions[k].y = top
             IN  RowsAbove(positions, top) + RowHeight(positions, k)

NoOverlap(positions) ==
    /\ \A i, j \in 1..Len(positions) :
          i # j => Disjoint(positions[i], positions[j])
    /\ \A i \in 1..Len(positions) :
          positions[i].y = RowsAbove(positions, positions[i].y)

\* C20: after any sequence of calls on one packer no two emitted rectangles
\* overlap: the y of a row is the sum of the maximum heights of the rows
\* before it, and the panels of a row have disjoint x-ranges.
C20_NoOverlap == NoOverlap(emitted)

\* A row of a high and a low panel was followed by a panel on the next
\* row, which starts below the high one.
C20_Witness ==
    /\ Len(emitted) = 3
    /\ emitted[1].y = emitted[2].y
    /\ emitted[1].h > emitted[2].h
    /\ emitted[3].y = emitted[1].h
    /\ emitted[3].x < emitted[2].x + emitted[2].w
    /\ emitted[3].w = 24

\* C20 for the converter's own packer (_get_next_grid_position), when all
\* its calls were made by convert(): the rectangles of the panels of the
\* document do not overlap.
C20_ConverterNoOverlap ==
    (ops = <<>> \/ OnlyConverts) =>
        NoOverlap([i \in 1..Len(grafana.panels) |-> grafana.panels[i].gridPos])

\* A request with no usable query: a null entry, an empty mapping, or a
\* mapping with neither a single query nor a non-empty query list.
NoUsableQuery(request) ==
    \/ request.none
    \/ request = EmptyRequest
    \/ /\ ~Has(request.q)
       /\ ~Has(request.query)
       /\ ~Has(request.queries) \/ request.queries = Some(<<>>)

\* The reference ids under which the requests with a usable query are
\* expected, in the order of the requests.
RECURSIVE UsableRefIds(_, _, _)
UsableRefIds(items, from, prefix) ==
    IF from > Len(items) THEN <<>>
    ELSE (IF NoUsableQuery(items[from]) THEN <<>>
          ELSE <<prefix \o Str(from - 1)>>)
         \o UsableRefIds(items, from + 1, prefix)

RECURSIVE UsableDictRefIds(_)
UsableDictRefIds(entries) ==
    IF entries = <<>> THEN <<>>
    ELSE (IF entries[1].value.kind = "list"
          THEN UsableRefIds(entries[1].value.items, 1, entries[1].key \o <<"_">>)
          ELSE IF NoUsableQuery(entries[1].value.request) THEN <<>>
          ELSE <<entries[1].key>>)
         \o UsableDictRefIds(Tail(entries))

ExpectedRefIds(reqs) ==
    IF reqs.kind = "list" THEN UsableRefIds(reqs.items, 1, <<"A">>)
    ELSE IF reqs.kind = "dict" THEN UsableDictRefIds(reqs.entries)
    ELSE <<>>

\* C15: a request with no usable query gives no target and no error, and
\* the other requests of the field still give theirs, each under its own
\* reference id; an empty or absent requests field gives no targets.
C15_UnusableRequestsSkipped ==
    Has(targets) =>
        /\ [i \in 1..Len(targets[1]) |-> targets[1][i].refId]
              = ExpectedRefIds(requests[1])
        /\ requests[1] \in {NoRequests, RequestList(<<>>), RequestDict(<<>>)}
              => targets[1] = <<>>

\* A list of an empty mapping and a request with a query gave the one
\* target A1.
C15_Witness ==
    /\ Has(targets)
    /\ requests[1].kind = "list"
    /\ Len(requests[1].items) = 2
    /\ requests[1].items[1] = EmptyRequest
    /\ Len(targets[1]) = 1
    /\ targets[1][1].refId = <<"A", "1">>

-----------------------------------------------------------------------------
(* Two converters constructed on the same dashboard, each with its own     *)
(* convert().                                                              *)

TwoConvertersInit ==
    /\ datadog \in Documents
    /\ \E uid \in Uids : grafana = GrafanaInit(datadog, uid)
    /\ panel_id = 1
    /\ grid_pos = GridLayoutInit
    /\ ops = <<>>
    /\ returned = Absent
    /\ \E uid \in Uids :
          second = Some([grafana  |-> GrafanaInit(datadog, uid),
                         panel_id |-> 1,
                         grid_pos |-> GridLayoutInit,
                         ops      |-> <<>>])
    /\ PackerIdle
    /\ TranslatorIdle
    /\ NormalizerIdle
    /\ LoaderIdle

\* Mutant of ConvertSecond: panel_id and grid_pos are shared by the
\* converters (class attributes), the second one goes on from the first
\* one's.
ConvertSecondSharedCounters ==
    /\ Len(second[1].ops) < MaxOps
    /\ LET r == ConvertOn(datadog, second[1].grafana,
                          ConverterState(panel_id, grid_pos))
       IN  second' = Some([grafana  |-> r.grafana,
                           panel_id |-> r.st.panel_id,
                           grid_pos |-> r.st.grid_pos,
                           ops      |-> Append(second[1].ops, "convert")])
    /\ UNCHANGED <<datadog, grafana, panel_id, grid_pos, ops, returned,
                   grid_layout, emitted, last_call, query, prom, requests,
                   targets, file, loaded>>

\* convert() on the second converter.
ConvertSecond ==
    /\ Len(second[1].ops) < MaxOps
    /\ LET r == ConvertOn(datadog, second[1].grafana,
                          ConverterState(second[1].panel_id, second[1].grid_pos))
       IN  second' = Some([grafana  |-> r.grafana,
                           panel_id |-> r.st.panel_id,
                           grid_pos |-> r.st.grid_pos,
                           ops      |-> Append(second[1].ops, "convert")])
    /\ UNCHANGED <<datadog, grafana, panel_id, grid_pos, ops, returned,
                   grid_layout, emitted, last_call, query, prom, requests,
                   targets, file, loaded>>

TwoConvertersNext ==
    \/ Convert
    \/ ConvertSecond

TwoConvertersSpec == TwoConvertersInit /\ [][TwoConvertersNext]_vars

\* Each of the two converters has run its one convert().
BothConvertedOnce ==
    /\ OneConvert
    /\ second[1].ops = <<"convert">>

-----------------------------------------------------------------------------
(* The loader's specification: one DatadogDashboard(path) on a path of a   *)
(* file system.                                                            *)

JsonPath == <<"/", "d", "/", "a", ".", "j", "s", "o", "n">>

UpperCasePath == <<"/", "d", "/", "a", ".", "J", "S", "O", "N">>

TextPath == <<"/", "d", "/", "a", ".", "t", "x", "t">>

HiddenPath == <<"/", "d", "/", ".", "j", "s", "o", "n">>

SamplePaths == {JsonPath, UpperCasePath, TextPath, HiddenPath}

\* What is read from a file: text that is no JSON, bytes that are no UTF-8,
\* a failing read, a JSON list, or a JSON object with some of the fields
\* title, widgets, graphs and template_variables, nested depth deep.
NoContent == [kind |-> "unreadable"]

SampleWidgetLists ==
    {Relabel(widgets, 1).widgets :
        widgets \in {<<>>, <<Leaf(0, "timeseries")>>,
                     <<Group(0, <<Leaf(0, "note")>>), Leaf(0, "toplist")>>}}

SampleContents ==
    {[kind |-> k] : k \in {"invalid_json", "bad_encoding", "unreadable", "list"}}
      \cup {[kind |-> "dict", depth |-> d, title |-> t, widgets |-> w,
             graphs |-> g, template_variables |-> v] :
               d \in {3, MAX_JSON_DEPTH + 1},
               t \in {Absent, Some("Production")},
               w \in {Absent} \cup {Some(l) : l \in SampleWidgetLists},
               g \in {Absent, Some(<<>>), Some(<<Leaf(1, "timeseries")>>)},
               v \in {Absent, Some(<<[NoVariable EXCEPT !.name = Some("env")]>>)}}

\* The file at a path: missing, a directory, or a regular file of some
\* size and content; the path may be longer than it is shown, or not
\* resolvable.
SampleFiles ==
    {[path |-> p,
      path_length |-> IF long THEN MAX_PATH_LENGTH + 1 ELSE Len(p),
      resolvable |-> r, exists |-> FALSE,
      is_file |-> FALSE, size |-> 0, content |-> NoContent] :
        p \in SamplePaths, long \in BOOLEAN, r \in BOOLEAN}
      \cup {[path |-> p, path_length |-> Len(p), resolvable |-> TRUE,
             exists |-> TRUE, is_file |-> FALSE, size |-> 4096,
             content |-> NoContent] : p \in SamplePaths}
      \cup {[path |-> p, path_length |-> Len(p), resolvable |-> TRUE,
             exists |-> TRUE, is_file |-> TRUE, size |-> n,
             content |-> NoContent] :
               p \in SamplePaths, n \in {0, MAX_FILE_SIZE_BYTES + 1}}
      \cup {[path |-> p, path_length |-> Len(p), resolvable |-> TRUE,
             exists |-> TRUE, is_file |-> TRUE, size |-> n, content |-> c] :
               p \in SamplePaths, n \in {1, MAX_FILE_SIZE_BYTES},
               c \in SampleContents}

LoaderInit ==
    /\ file \in {Some(f) : f \in SampleFiles}
    /\ loaded = Absent
    /\ PackerIdle
    /\ ConverterIdle
    /\ TranslatorIdle
    /\ NormalizerIdle
    /\ SecondIdle

\* DatadogDashboard(path)
Load ==
    /\ loaded = Absent
    /\ loaded' = Some(LoadDashboard(file[1]))
    /\ UNCHANGED <<file, datadog, grafana, panel_id, grid_pos, ops, returned,
                   grid_layout, emitted, last_call, query, prom, requests,
                   targets, second>>

LoaderNext == Load

LoaderSpec == LoaderInit /\ [][LoaderNext]_vars

\* C17 as stated: DatadogDashboard on a path that does not exist ends in a
\* DashboardParsingError whose message contains 'not found' and whose
\* suggestions are not empty, and gives no dashboard object.
C17_MissingFileParsingError ==
    (Has(loaded) /\ file[1].path_length <= MAX_PATH_LENGTH
                 /\ file[1].resolvable /\ ~file[1].exists) =>
        /\ ~Has(loaded[1].dashboard)
        /\ Has(loaded[1].error)
        /\ loaded[1].error[1].class = "DashboardParsingError"
        /\ Contains(loaded[1].error[1].message,
                    <<"n", "o", "t", " ", "f", "o", "u", "n", "d">>)
        /\ loaded[1].error[1].suggestions # <<>>

-----------------------------------------------------------------------------
(* The width of primary widgets at the start of a row (PackerSpec).        *)

\* C21: in every sequence of calls on one packer, a primary-kind widget with
\* no layout hint that is emitted at x = 0 is emitted with w = 24, and such
\* a widget is emitted with w = 12 only when it is emitted at x > 0.
C21_PrimaryStartsRowFullWidth ==
    Has(last_call) =>
        LET c == last_call[1]
        IN  (WidgetType(c.widget) \in ImportantTypes /\ ~Has(c.widget.layout)) =>
                /\ c.pos.x = 0 => c.pos.w = 24
                /\ c.pos.w = 12 => c.pos.x > 0

-----------------------------------------------------------------------------
(* The flattened sequence and groups (ConverterSpec).                      *)

\* C22 as stated: the flattened sequence contains leaves only; no widget of
\* kind 'group' appears in it, whether the group is top-level or nested, and
\* a group with an empty or absent child list contributes no element.
C22_FlattenLeavesOnly ==
    LET flat == FlattenWidgets(datadog)
    IN  \A i \in 1..Len(flat) :
            ~(Has(flat[i].definition) /\ flat[i].definition[1].type = "group")

-----------------------------------------------------------------------------
(* Query lists (NormalizerSpec).                                           *)

\* The sub-queries of a request's query list that have query text; none
\* when the request has a single query, which the code reads first.
SubQueries(request) ==
    IF request.none \/ Has(request.q) \/ Has(request.query)
         \/ ~Has(request.queries)
    THEN <<>>
    ELSE SelectSeq(request.queries[1],
                   LAMBDA query_obj : /\ Has(query_obj.query)
                                      /\ query_obj.query[1] # <<>>)

\* C23 as stated: a request that carries a query list of k >= 1 sub-queries
\* with query text contributes k targets, one per sub-query in list order,
\* each with its own reference id.  Checked on the fields that are a list of
\* one such request.
C23_QueryListOneTargetEach ==
    ( /\ Has(targets)
      /\ requests[1].kind = "list"
      /\ Len(requests[1].items) = 1
      /\ Len(SubQueries(requests[1].items[1])) >= 1 )
    => LET subs == SubQueries(requests[1].items[1])
       IN  /\ Len(targets[1]) = Len(subs)
           /\ \A j \in 1..Len(targets[1]) :
                 j <= Len(subs) =>
                    targets[1][j].expr
                       = ConvertDatadogQueryToPrometheus(subs[j].query[1])
           /\ \A i, j \in 1..Len(targets[1]) :
                 targets[1][i].refId = targets[1][j].refId => i = j

-----------------------------------------------------------------------------
(* Reference ids (NormalizerSpec).                                         *)

\* C24 as stated: the reference ids of the targets of one requests field
\* are pairwise distinct, for every shape of the field (list, mapping of key
\* to list, mapping of key to single request, mappings mixing the two).
C24_RefIdsDistinct ==
    Has(targets) =>
        \A i, j \in 1..Len(targets[1]) :
            targets[1][i].refId = targets[1][j].refId => i = j

\* The (reference id, expression) pairs expected of the requests
\* items[from..] of a list: the id is prefix + str(index), the index that of
\* the request in the list, and a request without a usable query has none.
RECURSIVE PositionalPairs(_, _, _)
PositionalPairs(items, from, prefix) ==
    IF from > Len(items) THEN <<>>
    ELSE (IF NoUsableQuery(items[from]) THEN <<>>
          ELSE << <<prefix \o Str(from - 1),
                    ConvertDatadogQueryToPrometheus(ExtractQuery(items[from]))>> >>)
         \o PositionalPairs(items, from + 1, prefix)

RECURSIVE PositionalDictPairs(_)
PositionalDictPairs(entries) ==
    IF entries = <<>> THEN <<>>
    ELSE (IF entries[1].value.kind = "list"
          THEN PositionalPairs(entries[1].value.items, 1, entries[1].key \o <<"_">>)
          ELSE IF NoUsableQuery(entries[1].value.request) THEN <<>>
          ELSE << <<entries[1].key,
                    ConvertDatadogQueryToPrometheus(
                        ExtractQuery(entries[1].value.request))>> >>)
         \o PositionalDictPairs(Tail(entries))

\* C25: reference ids are synthesized from shape and position only: in a
\* list the request at index i gets 'A<i>' (the index of a request that gives
\* no target is skipped, not reused), in a mapping entry key -> list the
\* request at index i gets '<key>_<i>', a mapping entry key -> single request
\* gets the bare key, and the targets appear in input iteration order, each
\* with the expression of its own request.
C25_RefIdsPositional ==
    (Has(targets) /\ requests[1].kind \in {"list", "dict"}) =>
        [i \in 1..Len(targets[1]) |-> <<targets[1][i].refId, targets[1][i].expr>>]
            = (IF requests[1].kind = "list"
               THEN PositionalPairs(requests[1].items, 1, <<"A">>)
               ELSE PositionalDictPairs(requests[1].entries))

\* A mapping mixing the two shapes, metrics -> [q] and logs -> single
\* request, gave the targets metrics_0 and logs in this order.
C25_Witness ==
    /\ Has(targets)
    /\ requests[1].kind = "dict"
    /\ Len(requests[1].entries) = 2
    /\ requests[1].entries[1].value.kind = "list"
    /\ requests[1].entries[2].value.kind = "dict"
    /\ Len(targets[1]) = 2
    /\ targets[1][1].refId = MetricsKey \o <<"_", "0">>
    /\ targets[1][2].refId = LogsKey

-----------------------------------------------------------------------------
(* Range tokens (TranslatorSpec).                                          *)

\* The range tokens of s, '[' + one or more word characters + ']', from
\* left to right.
RECURSIVE RangeTokens(_)
RangeTokens(s) ==
    IF s = <<>> THEN <<>>
    ELSE LET close == IndexOf(Tail(s), "]")
         IN  IF /\ s[1] = "["
                /\ close >= 2
                /\ \A k \in 2..close : s[k] \in WordChars
             THEN <<SubSeq(s, 1, close + 1)>> \o RangeTokens(Drop(s, close + 1))
             ELSE RangeTokens(Tail(s))

\* s after the last range token of it.
RECURSIVE AfterLastToken(_)
AfterLastToken(s) ==
    IF RangeTokens(s) = <<>> THEN s ELSE AfterLastToken(Tail(s))

EndsWith(s, pat) ==
    /\ Len(s) >= Len(pat)
    /\ SubSeq(s, Len(s) - Len(pat) + 1, Len(s)) = pat

\* C26: if the input contains a range token, the output contains the same
\* range tokens in the same order and no '[5m]' is appended, and the closing
\* parentheses added by step 3 come after the last of them
\* ('min:{t:m}[1m]' gives 'min_over_time({{t:m}}[1m])'); if
\* the input contains none, the output ends with '[5m]'; so every output
\* contains a range token.
C26_RangeTokenRule ==
    Has(prom) =>
        /\ RangeTokens(query) # <<>> =>
              /\ RangeTokens(prom[1]) = RangeTokens(query)
              /\ LET fns   == ReplaceFunctions(query)
                     added == Max(0, Count(fns, "(") - Count(fns, ")"))
                 IN  EndsWith(AfterLastToken(prom[1]), Repeat(")", added))
        /\ RangeTokens(query) = <<>> =>
              /\ EndsWith(prom[1], DefaultTimeRange)
              /\ RangeTokens(prom[1]) = <<DefaultTimeRange>>
        /\ RangeTokens(prom[1]) # <<>>
        /\ query = MinToken \o <<"{", "t", ":", "m", "}">> \o <<"[", "1", "m", "]">>
              => prom[1] = MinFunction \o <<"{", "{", "t", ":", "m", "}", "}">>
                             \o <<"[", "1", "m", "]", ")">>

\* 'min:{t:m}[1m]' was translated: the range token stayed where it was and
\* the closing parenthesis came after it.
C26_Witness ==
    /\ Has(prom)
    /\ query = MinToken \o <<"{", "t", ":", "m", "}">> \o <<"[", "1", "m", "]">>
    /\ RangeTokens(prom[1]) = << <<"[", "1", "m", "]">> >>
    /\ prom[1][Len(prom[1])] = ")"

-----------------------------------------------------------------------------
(* The size of a widget with a layout hint (PackerSpec).                   *)

\* The integer nearest to percent * 24 / 100; for an integer percent the
\* quotient is never halfway between two integers.
Nearest(percent) ==
    LET below == (24 * percent) \div 100
    IN  IF 24 * percent - 100 * below < 50 THEN below ELSE below + 1

Clamp(v, lo, hi) == IF v < lo THEN lo ELSE IF v > hi THEN hi ELSE v

\* C27: for a widget with a layout hint (integer width and height
\* percentages) the emitted size is w = clamp(round(width * 24 / 100), 1, 24)
\* and h = clamp(round(height * 24 / 100), 4, 36), for every percentage
\* including those below 0 and above 100 (50/25 gives w = 12, h = 6; width
\* 150 gives w = 24; 1/1 gives w = 1, h = 4), whatever the widget's kind and
\* the cursor.
C27_LayoutHintSize ==
    Has(last_call) =>
        LET c == last_call[1]
        IN  HasLayoutSize(c.widget) =>
              LET width  == c.widget.layout[1].width[1]
                  height == c.widget.layout[1].height[1]
              IN  /\ c.pos.w = Clamp(Nearest(width), 1, 24)
                  /\ c.pos.h = Clamp(Nearest(height), 4, 36)
                  /\ (width = 50 /\ height = 25) => (c.pos.w = 12 /\ c.pos.h = 6)
                  /\ width = 150 => c.pos.w = 24
                  /\ (width = 1 /\ height = 1) => (c.pos.w = 1 /\ c.pos.h = 4)

\* A primary widget with the hint 66/25 was placed with the cursor inside a
\* row: w = 16 (15.84 rounded), h = 6.
C27_Witness ==
    /\ Has(last_call)
    /\ WidgetType(last_call[1].widget) = "timeseries"
    /\ last_call[1].widget.layout = Layout(Some(66), Some(25))
    /\ last_call[1].at.x > 0
    /\ last_call[1].pos.w = 16
    /\ last_call[1].pos.h = 6

-----------------------------------------------------------------------------
(* Panel titles (ConverterSpec).                                           *)

\* C28 as stated: the title of every emitted panel is a non-empty string,
\* for every source widget, including widgets whose title fields are absent
\* or are the empty string.
C28_TitleNeverEmpty ==
    \A i \in 1..Len(grafana.panels) : grafana.panels[i].title # ""

-----------------------------------------------------------------------------
(* Widgets without a definition (ConverterSpec).                           *)

\* Every widget of a widget list, the children of groups included, in
\* document order.
RECURSIVE AllWidgets(_)
AllWidgets(widgets) ==
    IF widgets = <<>> THEN <<>>
    ELSE <<widgets[1]>>
           \o (IF IsGroupWithWidgets(widgets[1])
               THEN AllWidgets(widgets[1].definition[1].widgets[1])
               ELSE <<>>)
           \o AllWidgets(Tail(widgets))

\* The number of widgets of the document that have a definition of type t.
NumberOfType(t) ==
    LET all == AllWidgets(datadog.widgets)
    IN  Cardinality({i \in 1..Len(all) : /\ Has(all[i].definition)
                                         /\ all[i].definition[1].type = t})

\* The number of widgets of the document that have no definition.
NumberWithoutDefinition ==
    LET all == AllWidgets(datadog.widgets)
    IN  Cardinality({i \in 1..Len(all) : ~Has(all[i].definition)})

\* widget_types[t] of a defaultdict(int).
CountOfKind(t) ==
    IF t \in DOMAIN datadog.widget_types THEN datadog.widget_types[t] ELSE 0

\* The widgets convert() emits a panel for: those with a definition, but for
\* the groups that have children and the top-level groups.
NumberConverted ==
    LET all == AllWidgets(datadog.widgets)
    IN  Cardinality({i \in 1..Len(all) :
            /\ Has(all[i].definition)
            /\ ~IsGroupWithWidgets(all[i])
            /\ ~(all[i].definition[1].type = "group" /\ IsTopLevel(all[i]))})

\* C29 as stated: a widget that lacks a definition yields no panel and is
\* still counted for reporting: each such widget increases the count of
\* kind 'unknown' by one.
C29_NoDefinitionCountedUnknown ==
    /\ OneConvert => Len(grafana.panels) = NumberConverted
    /\ CountOfKind("unknown") = NumberOfType("unknown") + NumberWithoutDefinition

\* C29 as amended: a widget that lacks a definition yields no panel and is
\* not counted under any kind; the count of a kind is the number of widgets
\* whose definition has this kind, and 'unknown' counts the definitions that
\* have no type.
C29_NoDefinitionNotCounted ==
    /\ OneConvert => Len(grafana.panels) = NumberConverted
    /\ CountOfKind("unknown") = NumberOfType("unknown")
    /\ \A t \in DOMAIN datadog.widget_types \cup SupportedTypes \cup {"group"} :
          CountOfKind(t) = NumberOfType(t)

\* A document of a widget without definition and a timeseries widget was
\* converted: one panel, and no kind counted but timeseries.
C29_Witness ==
    /\ OneConvert
    /\ Len(datadog.widgets) = 2
    /\ ~Has(datadog.widgets[1].definition)
    /\ WidgetType(datadog.widgets[2]) = "timeseries"
    /\ Len(grafana.panels) = 1
    /\ DOMAIN datadog.widget_types = {"timeseries"}

-----------------------------------------------------------------------------
(* The frame of converting a widget without a definition (ConverterSpec).  *)

\* A widget list without its widgets that lack a definition, at any depth.
RECURSIVE WithoutUndefined(_)
WithoutUndefined(widgets) ==
    IF widgets = <<>> THEN <<>>
    ELSE (IF ~Has(widgets[1].definition) THEN <<>>
          ELSE IF IsGroupWithWidgets(widgets[1])
          THEN <<Group(widgets[1].id,
                       WithoutUndefined(widgets[1].definition[1].widgets[1]))>>
          ELSE <<widgets[1]>>)
         \o WithoutUndefined(Tail(widgets))

\* The panels of one convert() on a fresh converter of the document without
\* the widgets that lack a definition.
PanelsWithoutUndefined ==
    LET dd == Dashboard(WithoutUndefined(datadog.widgets),
                        datadog.template_variables)
    IN  ConvertOn(dd, GrafanaInit(dd, grafana.uid),
                  ConverterState(1, GridLayoutInit)).grafana.panels

\* _convert_widget_to_panel on a widget without definition leaves the
\* counters and the document as they were.
SkipLeavesFrame ==
    \A i \in 1..Len(datadog.widgets) :
        (~Has(datadog.widgets[i].definition) /\ ConvertWidget(datadog.widgets[i]))
            => /\ returned' = Absent
               /\ panel_id' = panel_id
               /\ grid_pos' = grid_pos
               /\ grafana' = grafana

\* C30: converting a widget that lacks a definition changes nothing: it
\* returns no panel and leaves the panel-id counter, the packer cursor and
\* the list of emitted panels unchanged, so the ids and positions of the
\* panels of convert() are the same as if that widget were not in the input.
C30_SkipChangesNothing ==
    /\ [](OneConvert => grafana.panels = PanelsWithoutUndefined)
    /\ [][SkipLeavesFrame]_vars

\* _convert_widget_to_panel was called on the widget without definition of
\* a document, then convert(): the first panel has id 1 at the origin.
C30_Witness ==
    /\ ops = <<"_convert_widget_to_panel", "convert">>
    /\ Len(datadog.widgets) = 2
    /\ ~Has(datadog.widgets[1].definition)
    /\ Len(grafana.panels) = 1
    /\ grafana.panels[1].id = 1
    /\ grafana.panels[1].gridPos.x = 0
    /\ grafana.panels[1].gridPos.y = 0

=============================================================================
